---- MODULE Spec2Model ----
(***************************************************************************)
(* Realtime ingestion engine of the Tibber Pulse integrations.             *)
(*                                                                         *)
(*  - TibberPulseHub (custom_components/tibber_pulse_phases/__init__.py):  *)
(*    the websocket receive loop _run_ws, the polling loop _poll_loop and  *)
(*    the async_setup / async_stop entry points.                           *)
(*  - TibberPulseCoordinator                                               *)
(*    (config/custom_components/tibber_pulse_p1/coordinator.py):           *)
(*    owned / borrowed realtime attachment, the first-data wait and        *)
(*    async_stop.                                                          *)
(*                                                                         *)
(*  - TibberPulseClient and the polling TibberPulseCoordinator            *)
(*    (custom_components/tibber_pulse_p1/coordinator.py): the REST request *)
(*    and the errors it raises.                                            *)
(*                                                                         *)
(*  - TibberPulseConfigFlow                                               *)
(*    (custom_components/tibber_pulse_phases/config_flow.py): the token    *)
(*    step, the home fetch and the home step.                              *)
(*                                                                         *)
(* Every asyncio task is a process whose position (pc) is the await it is  *)
(* suspended at; one action is the code that runs between two awaits.      *)
(***************************************************************************)
EXTENDS Integers, Sequences, FiniteSets, TLC

\* ------------------------------------------------------------------ bounds
\* number of async_setup calls made on one hub
MaxSetups == 2
\* measurement values range over 1..MaxValue
MaxValue == 2
\* number of _async_update_data calls made on one coordinator
MaxCalls == 2
\* number of _handle_live jobs that can be queued in the event loop
MaxJobs == 1
\* number of async_stop calls made on one coordinator
MaxStops == 2
\* number of add_listener calls made on one hub
MaxListeners == 2
\* number of listener jobs that can be queued in the event loop
MaxHassJobs == 2
\* number of refreshes of the REST coordinator
MaxRequests == 2
\* longest generated capability id given to _normalize_capability_id
MaxIdLen == 3
\* capabilities in a device payload at setup
MaxCaps == 2
\* capabilities of the devices whose entities are read after a refresh
MaxReadCaps == 1

\* -------------------------------------------------------- program constants
\* for _ in range(120): checks of the shared home's callback
RT_ATTACH_CHECKS == 120
\* await asyncio.sleep(10) at the end of every pass of _run_ws
WS_RETRY_DELAY == 10
\* await asyncio.sleep(60) at the end of every pass of _poll_loop
POLL_INTERVAL == 60

\* number of forms submitted to one config flow
MaxSubmits == 3

\* ------------------------------------------------------------------ payloads
\* fields of a liveMeasurement payload (two of the subscription's fields)
Fields == {"power", "powerPhase1"}
Values == 1..MaxValue
\* a payload is a dict field -> value over any subset of the fields
Payloads == UNION {[S -> Values] : S \in SUBSET Fields}
EmptyPayload == [f \in {} |-> 1]
\* the liveMeasurement payloads delivered to the coordinator, which only
\* tests them for emptiness and stores them whole: one field suffices
LivePayloads == {p \in Payloads : DOMAIN p \subseteq {"power"}}

\* inbound websocket frames, by what json.loads and the lookups make of them:
\*   nonjson    json.loads raises JSONDecodeError
\*   nonobject  valid JSON that is not an object (message.get raises)
\*   nondata    an object whose "type" is not "data"
\*   data       an object of type "data"; payload is its liveMeasurement
\*              (the empty payload when the path is absent or empty)
Frames ==
  [kind : {"nonjson", "nonobject", "nondata"}, payload : {EmptyPayload}]
    \cup [kind : {"data"}, payload : Payloads]

\* outcomes of websockets.connect
ConnectOutcomes == {"ok", "auth", "rate_limited", "transient"}

VARIABLES
  \* the integration a behaviour exercises: "hub" (tibber_pulse_phases),
  \* "coordinator" (config/.../tibber_pulse_p1), "rest"
  \* (custom_components/tibber_pulse_p1), "sensor" (its sensor platform) or
  \* "flow" (the config flow of tibber_pulse_phases);
  \* they share no state
  component,
  \* ---- TibberPulseHub
  last_payload,       \* self.last_payload
  available_keys,     \* self.available_keys
  supports_realtime,  \* self.supports_realtime
  ws_task,            \* self._ws_task: 0 (None) or a task id
  poll_task,          \* self._poll_task: 0 (None) or a task id
  stopped,            \* self._stopped
  tasks,              \* the asyncio tasks created so far:
                      \* [kind, pc, err, delay, open, sent]
  setups_started,     \* async_setup calls made so far
  setups_waiting,     \* async_setup calls suspended in _check_realtime
  listeners,          \* self._listeners
  hass_jobs,          \* listener callbacks queued by hass.add_job, in order
  job_failed,         \* the listener job that ran last raised
  accepted,           \* history: the payload accepted last (empty: none yet)
  notify_parity,      \* history: parity of the number of _notify_listeners
                      \* calls made while a listener was registered
  registered,         \* hass.data[DOMAIN][entry.entry_id] holds the hub
  unloaded,           \* what async_unload_entry returned: none/ok/failed
  \* ---- TibberPulseCoordinator and the Tibber client it uses
  c_started,          \* self._started
  c_owns,             \* self._owns_tibber
  c_tibber,           \* self._tibber: "none", "shared" or "own"
  c_home,             \* self._home is set
  c_future,           \* self._first_data_event: none/pending/result/cancelled
  c_data,             \* self.data
  calls,              \* _async_update_data calls: [pc, why, nonempty]
  checks,             \* iterations of the attach loop done so far
  jobs,               \* hass.add_job(self._handle_live, live) queue
  handled,            \* _handle_live has run at least once
  stops,              \* TibberPulseCoordinator.async_stop calls so far
  shared_tibber,      \* hass.data["tibber"] is a Tibber instance
  home_known,         \* tibber.get_home(home_id) returns a home
  home_rt_callback,   \* home._rt_callback as the chain of callbacks it runs
  home_rt_running,    \* the home's realtime subscription is delivering
  client_ops,         \* how often each operation of OpNames was invoked
  last_invoked,       \* callbacks run for the last delivered payload, in order
  last_delivery,      \* history: the callback the last payload was delivered
                      \* to, and whether the external owner's callback raised
  tibber_info,        \* the Tibber client the coordinator constructed:
                      \* [all_home_ids, active_home_ids, sub_endpoint
                      \* (none/server/default), rate_limited (history: the
                      \* fallback of update_info has run)]
  \* ---- TibberPulseClient and the REST coordinator
  rest_pc,            \* "idle", or "requesting" inside async_get
  rest_log,           \* history: the refreshes made: [resp, raised, outcome]
  \* ---- sensor platform of the REST integration
  table,              \* the module's CAPABILITY_SPECS; <<>> before the import
  sensor_op,          \* the call a behaviour follows, once it was made:
                      \* none/normalize/setup/native_value
  cap_id,             \* the id the last call was about
  normalized,         \* result of _normalize_capability_id
  data,               \* coordinator.data["capabilities"]
  entities,           \* the entities async_setup_entry added:
                      \* [key, capability_id, unit, passthrough]
  reading,            \* result of native_value
  \* ---- TibberPulseConfigFlow
  flow_step,          \* what the flow returned last: the form "user" or
                      \* "home", "create_entry", "abort", or "raised"
  flow_token,         \* self._token
  flow_homes,         \* self._homes
  flow_errors,        \* errors["base"] of the form shown last ("": none)
  flow_fetch,         \* history: the last _fetch_homes call:
                      \* [made, token, resp, body, raised]
  flow_entry,         \* data of the entry created (<<>>: none)
  flow_submits        \* step calls made so far

fanoutVars == <<listeners, hass_jobs, job_failed, accepted, notify_parity>>
entryVars == <<registered, unloaded>>
hubVars == <<last_payload, available_keys, supports_realtime, ws_task,
             poll_task, stopped, tasks, setups_started, setups_waiting,
             fanoutVars, entryVars>>
coordVars == <<c_started, c_owns, c_tibber, c_home, c_future, c_data, calls,
               checks, jobs, handled, stops, shared_tibber, home_known,
               home_rt_callback, home_rt_running, client_ops, last_invoked,
               last_delivery, tibber_info>>
restVars == <<rest_pc, rest_log>>
sensorVars == <<table, sensor_op, cap_id, normalized, data, entities, reading>>
flowVars == <<flow_step, flow_token, flow_homes, flow_errors, flow_fetch,
              flow_entry, flow_submits>>
nonHubVars == <<component, coordVars, restVars, sensorVars, flowVars>>
nonCoordVars == <<component, hubVars, restVars, sensorVars, flowVars>>
nonRestVars == <<component, hubVars, coordVars, sensorVars, flowVars>>
nonSensorVars == <<component, hubVars, coordVars, restVars, flowVars>>
nonFlowVars == <<component, hubVars, coordVars, restVars, sensorVars>>
vars == <<component, hubVars, coordVars, restVars, sensorVars, flowVars>>

\* ===================================================================== hub
TaskIds == 1..Len(tasks)
WsConnected == {"send_init", "send_start", "recv"}

HubInit ==
  /\ last_payload = EmptyPayload
  /\ available_keys = {}
  /\ supports_realtime = FALSE
  /\ ws_task = 0
  /\ poll_task = 0
  /\ stopped = FALSE
  /\ tasks = <<>>
  /\ setups_started = 0
  /\ setups_waiting = 0
  /\ listeners = <<>>
  /\ hass_jobs = <<>>
  /\ job_failed = FALSE
  /\ accepted = EmptyPayload
  /\ notify_parity = 0
  /\ registered = FALSE
  /\ unloaded = "none"

\* faulty variant: a failed poll doubles the wait
PollDelay_Backoff(failed) ==
  IF failed THEN 2 * POLL_INTERVAL ELSE POLL_INTERVAL

\* the sleep at the end of a pass of _poll_loop, whether the poll failed
PollDelay(failed) == POLL_INTERVAL

\* the sleep a task of this kind makes at the end of a pass of its loop
SleepDelay(kind, failed) ==
  IF kind = "ws" THEN WS_RETRY_DELAY ELSE PollDelay(failed)

\* the frames _run_ws and the probe write on a connection
InitMsg == [type |-> "connection_init", id |-> "", homeId |-> ""]
StartMsg(home) == [type |-> "start", id |-> "1", homeId |-> home]
StopMsg == [type |-> "stop", id |-> "1", homeId |-> ""]

\* the home the hub was constructed for
home_id == "home-1"

\* the connection once the task is at p: leaving the async with block, by
\* an exception, by break or by the end of the stream, closes it
OpenAt(p, open) == p \in WsConnected /\ open

\* what has been written on the task's connection once the task is at p
SentAt(p, sent) == IF p \in WsConnected THEN sent ELSE <<>>

SetPcErr(t, p, e) ==
  [tasks EXCEPT ![t].pc = p, ![t].err = e,
                ![t].delay = IF p = "sleep"
                             THEN SleepDelay(tasks[t].kind, e # "none")
                             ELSE 0,
                ![t].open = OpenAt(p, @),
                ![t].sent = SentAt(p, @)]
SetPc(t, p) == SetPcErr(t, p, tasks[t].err)

\* task.cancel(): a task that has not finished gets CancelledError at the
\* await it is suspended at; no handler of the loops catches it.
Cancelled(ts, t) ==
  IF t # 0 /\ ts[t].pc \notin {"done", "cancelled"}
  THEN [ts EXCEPT ![t].pc = "cancelled", ![t].delay = 0,
                  ![t].open = OpenAt("cancelled", @),
                  ![t].sent = SentAt("cancelled", @)]
  ELSE ts

\* async_setup up to its await of _check_realtime
AsyncSetupCall ==
  /\ component = "hub"
  /\ setups_started < MaxSetups
  /\ setups_started' = setups_started + 1
  /\ setups_waiting' = setups_waiting + 1
  /\ UNCHANGED <<last_payload, available_keys, supports_realtime, ws_task,
                 poll_task, stopped, tasks>>
  /\ UNCHANGED fanoutVars
  /\ UNCHANGED entryVars
  /\ UNCHANGED nonHubVars

\* async_setup_entry: the one async_setup call Home Assistant makes on the
\* hub it has just constructed
AsyncSetupEntry ==
  /\ setups_started = 0
  /\ AsyncSetupCall

\* _check_realtime has returned rt: the rest of async_setup creates one task
CreateLoopTask(rt) ==
  /\ component = "hub"
  /\ setups_waiting > 0
  /\ setups_waiting' = setups_waiting - 1
  /\ supports_realtime' = rt
  /\ tasks' = Append(tasks, [kind |-> IF rt THEN "ws" ELSE "poll",
                             pc |-> "start", err |-> "none", delay |-> 0,
                             open |-> FALSE, sent |-> <<>>])
  /\ IF rt
     THEN ws_task' = Len(tasks) + 1 /\ UNCHANGED poll_task
     ELSE poll_task' = Len(tasks) + 1 /\ UNCHANGED ws_task
  /\ UNCHANGED <<last_payload, available_keys, stopped, setups_started>>
  /\ UNCHANGED fanoutVars
  /\ UNCHANGED nonHubVars

\* _check_realtime returns: the rest of async_setup
AsyncSetupResume(rt) ==
  /\ CreateLoopTask(rt)
  /\ UNCHANGED entryVars

\* _post_graphql raises inside _check_realtime (outside its try): async_setup
\* ends with that error and creates no task
AsyncSetupRaise ==
  /\ component = "hub"
  /\ setups_waiting > 0
  /\ setups_waiting' = setups_waiting - 1
  /\ UNCHANGED <<last_payload, available_keys, supports_realtime, ws_task,
                 poll_task, stopped, tasks, setups_started>>
  /\ UNCHANGED fanoutVars
  /\ UNCHANGED entryVars
  /\ UNCHANGED nonHubVars

\* the body of async_stop: set the flag, cancel the task handles that are set
StopTasks ==
  /\ component = "hub"
  /\ stopped' = TRUE
  /\ tasks' = Cancelled(Cancelled(tasks, ws_task), poll_task)
  /\ UNCHANGED <<last_payload, available_keys, supports_realtime, ws_task,
                 poll_task, setups_started, setups_waiting>>
  /\ UNCHANGED fanoutVars
  /\ UNCHANGED nonHubVars

AsyncStop ==
  /\ StopTasks
  /\ UNCHANGED entryVars

\* ---- async_setup_entry and async_unload_entry of the integration
\* hub.async_setup() has returned to async_setup_entry, which stores the hub
\* in hass.data and forwards the entry to the platforms
EntrySetupResume(rt) ==
  /\ CreateLoopTask(rt)
  /\ registered' = TRUE
  /\ UNCHANGED unloaded

\* async_unload_entry: pop the hub, stop it, then unload the platforms and
\* return their result (ok: the platforms unloaded)
AsyncUnloadEntry(ok) ==
  /\ registered
  /\ StopTasks
  /\ registered' = FALSE
  /\ unloaded' = IF ok THEN "ok" ELSE "failed"

\* ---- _handle_message
\* the frame is accepted: it replaces last_payload and adds its keys
Accepts(frame) == frame.kind = "data" /\ DOMAIN frame.payload # {}
\* the frame makes _handle_message raise
Raises(frame) == frame.kind = "nonobject"

\* faulty variant: the key set is replaced by the payload's keys
MergeKeys_Replace(keys, payload) == DOMAIN payload

MergeKeys(keys, payload) == keys \cup DOMAIN payload

\* faulty variant: the payload is merged into the previous one
NewLastPayload_Merge(old, payload) ==
  [f \in DOMAIN old \cup DOMAIN payload |->
     IF f \in DOMAIN payload THEN payload[f] ELSE old[f]]

\* self.last_payload = payload
NewLastPayload(old, payload) == payload

\* faulty variant: every listener is scheduled twice
Notify_Twice(ls) == ls \o ls

\* _notify_listeners: one hass.add_job(update) per entry of _listeners
Notify(ls) == ls

\* the tail of _handle_message and of a pass of _poll_loop for a non-empty
\* payload: store it, merge its keys, notify the listeners
AcceptPayload(payload) ==
  /\ Len(hass_jobs) + Len(listeners) <= MaxHassJobs
  /\ last_payload' = NewLastPayload(last_payload, payload)
  /\ available_keys' = MergeKeys(available_keys, payload)
  /\ hass_jobs' = hass_jobs \o Notify(listeners)
  /\ accepted' = payload
  /\ notify_parity' = IF listeners = <<>>
                      THEN notify_parity ELSE 1 - notify_parity

HandleMessage(frame) ==
  IF Accepts(frame)
  THEN AcceptPayload(frame.payload)
  ELSE UNCHANGED <<last_payload, available_keys, hass_jobs, accepted,
                   notify_parity>>

\* ---- _run_ws
\* first step of the task, and the step after the sleep: the while test
WsLoopTest(t) ==
  /\ component = "hub"
  /\ tasks[t].kind = "ws"
  /\ tasks[t].pc \in {"start", "sleep"}
  /\ tasks' = SetPc(t, IF stopped THEN "done" ELSE "connecting")
  /\ UNCHANGED <<last_payload, available_keys, supports_realtime, ws_task,
                 poll_task, stopped, setups_started, setups_waiting>>
  /\ UNCHANGED fanoutVars
  /\ UNCHANGED entryVars
  /\ UNCHANGED nonHubVars

\* websockets.connect completes
WsConnect(t, outcome) ==
  /\ component = "hub"
  /\ tasks[t].kind = "ws"
  /\ tasks[t].pc = "connecting"
  /\ tasks' = IF outcome = "ok"
              THEN [SetPcErr(t, "send_init", "none") EXCEPT ![t].open = TRUE]
              ELSE SetPcErr(t, "sleep", outcome)
  /\ UNCHANGED <<last_payload, available_keys, supports_realtime, ws_task,
                 poll_task, stopped, setups_started, setups_waiting>>
  /\ UNCHANGED fanoutVars
  /\ UNCHANGED entryVars
  /\ UNCHANGED nonHubVars

\* faulty variant: the subscription is started before the handshake
SendFrame_StartFirst(pc, home) ==
  IF pc = "send_init" THEN StartMsg(home) ELSE InitMsg

\* the frame the send at pc writes
SendFrame(pc, home) ==
  IF pc = "send_init" THEN InitMsg ELSE StartMsg(home)

\* one of the two sends completes or fails
WsSend(t, ok) ==
  /\ component = "hub"
  /\ tasks[t].kind = "ws"
  /\ tasks[t].pc \in {"send_init", "send_start"}
  /\ tasks' = IF ok
              THEN [SetPc(t, IF tasks[t].pc = "send_init"
                             THEN "send_start" ELSE "recv")
                      EXCEPT ![t].sent =
                        Append(@, SendFrame(tasks[t].pc, home_id))]
              ELSE SetPcErr(t, "sleep", "transient")
  /\ UNCHANGED <<last_payload, available_keys, supports_realtime, ws_task,
                 poll_task, stopped, setups_started, setups_waiting>>
  /\ UNCHANGED fanoutVars
  /\ UNCHANGED entryVars
  /\ UNCHANGED nonHubVars

\* a frame arrives: break when stopped, else _handle_message
WsReceive(t, frame) ==
  /\ component = "hub"
  /\ tasks[t].kind = "ws"
  /\ tasks[t].pc = "recv"
  /\ IF stopped
     THEN /\ tasks' = SetPc(t, "sleep")
          /\ UNCHANGED <<last_payload, available_keys, hass_jobs, accepted,
                         notify_parity>>
     ELSE /\ HandleMessage(frame)
          /\ tasks' = IF Raises(frame)
                      THEN SetPcErr(t, "sleep", "handler")
                      ELSE tasks
  /\ UNCHANGED <<supports_realtime, ws_task, poll_task, stopped,
                 setups_started, setups_waiting, listeners, job_failed>>
  /\ UNCHANGED entryVars
  /\ UNCHANGED nonHubVars

\* faulty variant: a clean close by the server ends the loop
WsClosed_EndsLoop(t, clean) ==
  /\ component = "hub"
  /\ tasks[t].kind = "ws"
  /\ tasks[t].pc = "recv"
  /\ tasks' = IF clean THEN SetPc(t, "done")
              ELSE SetPcErr(t, "sleep", "transient")
  /\ UNCHANGED <<last_payload, available_keys, supports_realtime, ws_task,
                 poll_task, stopped, setups_started, setups_waiting>>
  /\ UNCHANGED fanoutVars
  /\ UNCHANGED entryVars
  /\ UNCHANGED nonHubVars

\* the stream ends: the server closes it, or receiving fails
WsClosed(t, clean) ==
  /\ component = "hub"
  /\ tasks[t].kind = "ws"
  /\ tasks[t].pc = "recv"
  /\ tasks' = IF clean THEN SetPc(t, "sleep")
              ELSE SetPcErr(t, "sleep", "transient")
  /\ UNCHANGED <<last_payload, available_keys, supports_realtime, ws_task,
                 poll_task, stopped, setups_started, setups_waiting>>
  /\ UNCHANGED fanoutVars
  /\ UNCHANGED entryVars
  /\ UNCHANGED nonHubVars

\* ---- _poll_loop
PollLoopTest(t) ==
  /\ component = "hub"
  /\ tasks[t].kind = "poll"
  /\ tasks[t].pc \in {"start", "sleep"}
  /\ tasks' = SetPc(t, IF stopped THEN "done" ELSE "request")
  /\ UNCHANGED <<last_payload, available_keys, supports_realtime, ws_task,
                 poll_task, stopped, setups_started, setups_waiting>>
  /\ UNCHANGED fanoutVars
  /\ UNCHANGED entryVars
  /\ UNCHANGED nonHubVars

\* if payload: the poll result is stored when it is not empty
PollAccepts(payload) == DOMAIN payload # {}

\* _post_graphql returns a response whose liveMeasurement is payload
PollResponse(t, payload) ==
  /\ component = "hub"
  /\ tasks[t].kind = "poll"
  /\ tasks[t].pc = "request"
  /\ IF PollAccepts(payload)
     THEN AcceptPayload(payload)
     ELSE UNCHANGED <<last_payload, available_keys, hass_jobs, accepted,
                      notify_parity>>
  /\ tasks' = SetPcErr(t, "sleep", "none")
  /\ UNCHANGED <<supports_realtime, ws_task, poll_task, stopped,
                 setups_started, setups_waiting, listeners, job_failed>>
  /\ UNCHANGED entryVars
  /\ UNCHANGED nonHubVars

\* _post_graphql or the reading of the response raises
PollFailure(t) ==
  /\ component = "hub"
  /\ tasks[t].kind = "poll"
  /\ tasks[t].pc = "request"
  /\ tasks' = SetPcErr(t, "sleep", "transient")
  /\ UNCHANGED <<last_payload, available_keys, supports_realtime, ws_task,
                 poll_task, stopped, setups_started, setups_waiting>>
  /\ UNCHANGED fanoutVars
  /\ UNCHANGED entryVars
  /\ UNCHANGED nonHubVars

\* ---- listeners
\* add_listener(update): appended, never removed; l names the callback
AddListener(l) ==
  /\ component = "hub"
  /\ Len(listeners) < MaxListeners
  /\ l = Len(listeners) + 1
  /\ listeners' = Append(listeners, l)
  /\ UNCHANGED <<last_payload, available_keys, supports_realtime, ws_task,
                 poll_task, stopped, tasks, setups_started, setups_waiting,
                 hass_jobs, job_failed, accepted, notify_parity>>
  /\ UNCHANGED entryVars
  /\ UNCHANGED nonHubVars

\* the jobs left once the first one has run: each callback was scheduled on
\* its own, so an error of one is logged by the event loop and ends there
JobsAfter(q, raises) == Tail(q)

\* the event loop runs the first queued listener callback
ListenerJob(raises) ==
  /\ component = "hub"
  /\ hass_jobs # <<>>
  /\ hass_jobs' = JobsAfter(hass_jobs, raises)
  /\ job_failed' = raises
  /\ UNCHANGED <<last_payload, available_keys, supports_realtime, ws_task,
                 poll_task, stopped, tasks, setups_started, setups_waiting,
                 listeners, accepted, notify_parity>>
  /\ UNCHANGED entryVars
  /\ UNCHANGED nonHubVars

HubNext ==
  \/ AsyncSetupCall
  \/ \E rt \in BOOLEAN : AsyncSetupResume(rt)
  \/ AsyncSetupRaise
  \/ AsyncStop
  \/ \E t \in TaskIds : WsLoopTest(t)
  \/ \E t \in TaskIds, o \in ConnectOutcomes : WsConnect(t, o)
  \/ \E t \in TaskIds, ok \in BOOLEAN : WsSend(t, ok)
  \/ \E t \in TaskIds, f \in Frames : WsReceive(t, f)
  \/ \E t \in TaskIds, clean \in BOOLEAN : WsClosed(t, clean)
  \/ \E t \in TaskIds : PollLoopTest(t)
  \/ \E t \in TaskIds, p \in Payloads : PollResponse(t, p)
  \/ \E t \in TaskIds : PollFailure(t)

\* ============================================================= coordinator
\* The Tibber client and its homes are the tibber library's. What the model
\* keeps of them is what the coordinator reads and writes: whether
\* get_home(home_id) finds the home, the home's _rt_callback (the callback
\* the home runs for every realtime payload) as the sequence of callbacks
\* that run, in order, whether the home's subscription is delivering, and
\* how often each tear-down or subscribe operation has been invoked.
OpNames == {"rt_subscribe", "rt_unsubscribe", "disconnect", "close_connection"}
CallIds == 1..MaxCalls
Ended == {"returned", "not_ready", "auth_failed", "cancelled"}
\* a home of the account other than the configured one
OtherHome == "home-2"
UpdateInfoOutcomes == {"ok_home", "ok_nohome", "auth", "rate_limited", "error"}
SubscribeOutcomes == {"ok", "auth", "rate_limited", "error"}

CoordInit ==
  /\ c_started = FALSE
  /\ c_owns = FALSE
  /\ c_tibber = "none"
  /\ c_home = FALSE
  /\ c_future = "none"
  /\ c_data = EmptyPayload
  /\ calls = [c \in CallIds |-> [pc |-> "idle", why |-> "none", nonempty |-> FALSE]]
  /\ checks = 0
  /\ jobs = <<>>
  /\ handled = FALSE
  /\ stops = 0
  /\ home_rt_callback = <<>>
  /\ home_rt_running = FALSE
  /\ client_ops = [o \in OpNames |-> 0]
  /\ last_invoked = <<>>
  /\ last_delivery = [cb |-> <<>>, ext_raised |-> FALSE]
  /\ tibber_info = [all_home_ids |-> {}, active_home_ids |-> {},
                    sub_endpoint |-> "none", rate_limited |-> FALSE]

Goto(c, p) == [calls EXCEPT ![c].pc = p]
Fail(c, p, w) == [calls EXCEPT ![c].pc = p, ![c].why = w]
Invoke(ops, o) == [ops EXCEPT ![o] = @ + 1]
Range(q) == {q[i] : i \in DOMAIN q}

\* faulty variant: every call runs the setup
SetupNeeded_Always(started) == TRUE

\* if not self._started: await self._async_setup_rt(), which returns at once
\* when _started is set
SetupNeeded(started) == ~started

\* _async_update_data up to its first await: the _started test and, when the
\* setup runs, _async_setup_rt up to update_info (owned) or the gather
CallStart(c) ==
  /\ component = "coordinator"
  /\ calls[c].pc = "idle"
  /\ IF ~SetupNeeded(c_started)
     THEN /\ calls' = Goto(c, "waiting")
          /\ UNCHANGED <<c_started, c_owns, c_tibber, c_home, c_future>>
     ELSE /\ c_started' = TRUE
          /\ c_future' = "pending"
          /\ IF shared_tibber
             THEN /\ c_tibber' = "shared"
                  /\ c_owns' = c_owns
                  /\ c_home' = home_known
                  /\ calls' = IF home_known THEN Goto(c, "gather")
                              ELSE Fail(c, "not_ready", "no_home")
             ELSE /\ c_tibber' = "own"
                  /\ c_owns' = TRUE
                  /\ c_home' = c_home
                  /\ calls' = Goto(c, "update_info")
  /\ UNCHANGED <<c_data, checks, jobs, handled, stops, shared_tibber,
                 home_known, home_rt_callback, home_rt_running, client_ops,
                 last_invoked,
                 last_delivery, tibber_info>>
  /\ UNCHANGED nonCoordVars

\* while update_info is under way the client stores what it has received:
\* the subscription endpoint and a home other than the configured one
UpdateInfoStores(c) ==
  /\ component = "coordinator"
  /\ calls[c].pc = "update_info"
  /\ tibber_info.sub_endpoint = "none"
  /\ tibber_info' = [tibber_info EXCEPT !.all_home_ids = {OtherHome},
                                        !.active_home_ids = {OtherHome},
                                        !.sub_endpoint = "server"]
  /\ UNCHANGED <<c_started, c_owns, c_tibber, c_home, c_future, c_data, calls,
                 checks, jobs, handled, stops, shared_tibber, home_known,
                 home_rt_callback, home_rt_running, client_ops, last_invoked,
                 last_delivery>>
  /\ UNCHANGED nonCoordVars

\* faulty variant: the configured home replaces the ids the client has
AddHome_Only(ids, home) == {home}

\* list({*ids, self.home_id})
AddHome(ids, home) == ids \cup {home}

\* if not sub_endpoint: the default websocket endpoint
EndpointOrDefault(endpoint) ==
  IF endpoint = "none" THEN "default" ELSE endpoint

\* the handler of RetryableHttpExceptionError
RateLimitedFallback(info, home) ==
  [info EXCEPT !.all_home_ids = AddHome(@, home),
               !.active_home_ids = AddHome(@, home),
               !.sub_endpoint = EndpointOrDefault(@),
               !.rate_limited = TRUE]

\* the client once update_info has ended with outcome
InfoAfter(info, outcome) ==
  CASE outcome = "rate_limited" -> RateLimitedFallback(info, home_id)
    [] outcome = "ok_home" ->
         [info EXCEPT !.all_home_ids = @ \cup {home_id},
                      !.active_home_ids = @ \cup {home_id},
                      !.sub_endpoint = "server"]
    [] outcome = "ok_nohome" -> [info EXCEPT !.sub_endpoint = "server"]
    [] OTHER -> info

\* self._tibber.update_info() ends, then get_home, which knows the homes of
\* _all_home_ids
UpdateInfoDone(c, outcome) ==
  /\ component = "coordinator"
  /\ calls[c].pc = "update_info"
  /\ tibber_info' = InfoAfter(tibber_info, outcome)
  /\ home_known' = (home_id \in tibber_info'.all_home_ids)
  /\ c_home' = home_known'
  /\ calls' = CASE outcome = "auth" -> Fail(c, "auth_failed", "home_info_auth")
                [] outcome = "error" -> Fail(c, "not_ready", "home_info")
                [] outcome = "ok_nohome" -> Fail(c, "not_ready", "no_home")
                [] OTHER -> Goto(c, "gather")
  /\ UNCHANGED <<c_started, c_owns, c_tibber, c_future, c_data, checks, jobs,
                 handled, stops, shared_tibber, home_rt_callback,
                 home_rt_running, client_ops, last_invoked,
                 last_delivery>>
  /\ UNCHANGED nonCoordVars

\* faulty variant: the coordinator's callback replaces the existing one
Combined_Replaces(existing_cb) == <<"own">>

\* combined_cb: the existing callback, then _rt_callback
Combined(existing_cb) == existing_cb \o <<"own">>

\* faulty variant: the loop gives up one check early
AttachExhausted_Early(n) == n >= RT_ATTACH_CHECKS - 1

\* for _ in range(120) has run all its iterations
AttachExhausted(n) == n >= RT_ATTACH_CHECKS

\* one iteration of the attach loop: wrap the existing callback and return
\* from the setup into wait_for, or sleep 1 s
AttachCheck(c) ==
  IF home_rt_callback # <<>>
  THEN /\ home_rt_callback' = Combined(home_rt_callback)
       /\ calls' = Goto(c, "waiting")
       /\ checks' = 0
  ELSE /\ checks' = checks + 1
       /\ calls' = Goto(c, "attach_sleep")
       /\ UNCHANGED home_rt_callback

\* the gather of the two home updates ends (its errors are returned, not
\* raised): first attach check when borrowed, rt_subscribe when owned
GatherDone(c) ==
  /\ component = "coordinator"
  /\ calls[c].pc = "gather"
  /\ IF c_owns
     THEN /\ calls' = Goto(c, "subscribe")
          /\ client_ops' = Invoke(client_ops, "rt_subscribe")
          /\ UNCHANGED <<checks, home_rt_callback>>
     ELSE /\ AttachCheck(c)
          /\ UNCHANGED client_ops
  /\ UNCHANGED <<c_started, c_owns, c_tibber, c_home, c_future, c_data, jobs,
                 handled, stops, shared_tibber, home_known, home_rt_running,
                 last_invoked,
                 last_delivery, tibber_info>>
  /\ UNCHANGED nonCoordVars

\* the 1 s sleep of the attach loop ends
AttachWake(c) ==
  /\ component = "coordinator"
  /\ calls[c].pc = "attach_sleep"
  /\ IF AttachExhausted(checks)
     THEN /\ calls' = Fail(c, "not_ready", "attach")
          /\ UNCHANGED <<checks, home_rt_callback>>
     ELSE AttachCheck(c)
  /\ UNCHANGED <<c_started, c_owns, c_tibber, c_home, c_future, c_data, jobs,
                 handled, stops, shared_tibber, home_known, home_rt_running,
                 client_ops, last_invoked,
                 last_delivery, tibber_info>>
  /\ UNCHANGED nonCoordVars

\* self._home.rt_subscribe(_rt_callback) ends
SubscribeDone(c, outcome) ==
  /\ component = "coordinator"
  /\ calls[c].pc = "subscribe"
  /\ IF outcome = "ok"
     THEN /\ home_rt_callback' = <<"own">>
          /\ home_rt_running' = TRUE
          /\ calls' = Goto(c, "waiting")
     ELSE /\ calls' = Fail(c, "not_ready", IF outcome = "auth"
                                           THEN "subscribe_auth"
                                           ELSE "subscribe")
          /\ UNCHANGED <<home_rt_callback, home_rt_running>>
  /\ UNCHANGED <<c_started, c_owns, c_tibber, c_home, c_future, c_data,
                 checks, jobs, handled, stops, shared_tibber, home_known,
                 client_ops, last_invoked,
                 last_delivery, tibber_info>>
  /\ UNCHANGED nonCoordVars

\* the owner of the shared client subscribes the home
ExtSubscribe ==
  /\ component = "coordinator"
  /\ shared_tibber
  /\ home_known
  /\ home_rt_callback = <<>>
  /\ home_rt_callback' = <<"ext">>
  /\ home_rt_running' = TRUE
  /\ UNCHANGED <<c_started, c_owns, c_tibber, c_home, c_future, c_data, calls,
                 checks, jobs, handled, stops, shared_tibber, home_known,
                 client_ops, last_invoked,
                 last_delivery, tibber_info>>
  /\ UNCHANGED nonCoordVars

\* faulty variant: an error of the existing callback leaves combined_cb
Invoked_Uncaught(cb, ext_raises) ==
  IF ext_raises /\ cb # <<>> /\ Head(cb) = "ext" THEN <<"ext">> ELSE cb

\* the callbacks that run when the home calls cb with one payload, in order;
\* in combined_cb an error of the existing callback is caught and logged
Invoked(cb, ext_raises) == cb

\* the home delivers one realtime payload to its _rt_callback; live is the
\* payload's liveMeasurement (empty when absent). _rt_callback queues
\* _handle_live for a non-empty one.
Deliver(live, ext_raises) ==
  /\ component = "coordinator"
  /\ home_rt_running
  /\ home_rt_callback # <<>>
  /\ last_invoked' = Invoked(home_rt_callback, ext_raises)
  /\ last_delivery' = [cb |-> home_rt_callback,
                       ext_raised |-> ext_raises /\ "ext" \in Range(home_rt_callback)]
  /\ IF "own" \in Range(last_invoked') /\ DOMAIN live # {}
     THEN /\ Len(jobs) < MaxJobs
          /\ jobs' = Append(jobs, live)
     ELSE UNCHANGED jobs
  /\ UNCHANGED <<c_started, c_owns, c_tibber, c_home, c_future, c_data, calls,
                 checks, handled, stops, shared_tibber, home_known,
                 home_rt_callback, home_rt_running, client_ops,
                 tibber_info>>
  /\ UNCHANGED nonCoordVars

\* the event loop runs one queued _handle_live
HandleLive ==
  /\ component = "coordinator"
  /\ jobs # <<>>
  /\ c_data' = Head(jobs)
  /\ jobs' = Tail(jobs)
  /\ c_future' = IF c_future = "pending" THEN "result" ELSE c_future
  /\ handled' = TRUE
  /\ UNCHANGED <<c_started, c_owns, c_tibber, c_home, calls, checks, stops,
                 shared_tibber, home_known, home_rt_callback, home_rt_running,
                 client_ops, last_invoked,
                 last_delivery, tibber_info>>
  /\ UNCHANGED nonCoordVars

\* wait_for ends because the future has its result: return self.data or {}
WaitReturn(c) ==
  /\ component = "coordinator"
  /\ calls[c].pc = "waiting"
  /\ c_future = "result"
  /\ calls' = [calls EXCEPT ![c].pc = "returned",
                            ![c].nonempty = (DOMAIN c_data # {})]
  /\ UNCHANGED <<c_started, c_owns, c_tibber, c_home, c_future, c_data,
                 checks, jobs, handled, stops, shared_tibber, home_known,
                 home_rt_callback, home_rt_running, client_ops, last_invoked,
                 last_delivery, tibber_info>>
  /\ UNCHANGED nonCoordVars

\* the 90 s of wait_for elapse: wait_for cancels the future it waits for and
\* raises TimeoutError, which becomes ConfigEntryNotReady
WaitTimeout(c) ==
  /\ component = "coordinator"
  /\ calls[c].pc = "waiting"
  /\ c_future = "pending"
  /\ c_future' = "cancelled"
  /\ calls' = Fail(c, "not_ready", "first_data")
  /\ UNCHANGED <<c_started, c_owns, c_tibber, c_home, c_data, checks, jobs,
                 handled, stops, shared_tibber, home_known, home_rt_callback,
                 home_rt_running, client_ops, last_invoked,
                 last_delivery, tibber_info>>
  /\ UNCHANGED nonCoordVars

\* wait_for on a cancelled future raises CancelledError, which
\* _async_update_data does not catch
WaitCancelled(c) ==
  /\ component = "coordinator"
  /\ calls[c].pc = "waiting"
  /\ c_future = "cancelled"
  /\ calls' = Fail(c, "cancelled", "future_cancelled")
  /\ UNCHANGED <<c_started, c_owns, c_tibber, c_home, c_future, c_data,
                 checks, jobs, handled, stops, shared_tibber, home_known,
                 home_rt_callback, home_rt_running, client_ops, last_invoked,
                 last_delivery, tibber_info>>
  /\ UNCHANGED nonCoordVars

\* faulty variant: nothing is torn down unless a home was found
StopOps_NeedsHome(home, tibber, owns) ==
  IF home
  THEN {"rt_unsubscribe"}
         \cup (IF tibber # "none" /\ owns
               THEN {"disconnect", "close_connection"} ELSE {})
  ELSE {}

\* the tear-down operations async_stop invokes, given what it holds
StopOps(home, tibber, owns) ==
  (IF home THEN {"rt_unsubscribe"} ELSE {})
    \cup (IF tibber # "none" /\ owns
          THEN {"disconnect", "close_connection"} ELSE {})

\* TibberPulseCoordinator.async_stop, as one step: rt_unsubscribe is
\* synchronous, and nothing the coordinator holds changes across the awaits
\* of disconnect and close_connection
CoordinatorStop ==
  /\ component = "coordinator"
  /\ stops < MaxStops
  /\ stops' = stops + 1
  /\ client_ops' = [o \in OpNames |->
                      IF o \in StopOps(c_home, c_tibber, c_owns)
                      THEN client_ops[o] + 1 ELSE client_ops[o]]
  /\ home_rt_running' = IF "rt_unsubscribe" \in StopOps(c_home, c_tibber, c_owns)
                        THEN FALSE ELSE home_rt_running
  /\ UNCHANGED <<c_started, c_owns, c_tibber, c_home, c_future, c_data, calls,
                 checks, jobs, handled, shared_tibber, home_known,
                 home_rt_callback, last_invoked,
                 last_delivery, tibber_info>>
  /\ UNCHANGED nonCoordVars

CoordNext ==
  \/ \E c \in CallIds : CallStart(c)
  \/ \E c \in CallIds : UpdateInfoStores(c)
  \/ \E c \in CallIds, o \in UpdateInfoOutcomes : UpdateInfoDone(c, o)
  \/ \E c \in CallIds : GatherDone(c)
  \/ \E c \in CallIds : AttachWake(c)
  \/ \E c \in CallIds, o \in SubscribeOutcomes : SubscribeDone(c, o)
  \/ ExtSubscribe
  \/ \E live \in LivePayloads, r \in BOOLEAN : Deliver(live, r)
  \/ HandleLive
  \/ \E c \in CallIds : WaitReturn(c)
  \/ \E c \in CallIds : WaitTimeout(c)
  \/ \E c \in CallIds : WaitCancelled(c)
  \/ CoordinatorStop

\* ============================================================= REST client
\* what ends self._session.get(url, timeout=30) and the reading of the body:
\*   response          a response with a status and a JSON body
\*   invalid_json      a response with a status whose body is not JSON
\*   timeout           asyncio.TimeoutError
\*   connection_error  aiohttp.ClientConnectionError: no connection was made
HttpStatuses == {200, 401, 403, 404, 429, 500}
Responses ==
  [end : {"response", "invalid_json"}, status : HttpStatuses]
    \cup [end : {"timeout", "connection_error"}, status : {0}]

RestInit ==
  /\ rest_pc = "idle"
  /\ rest_log = <<>>

\* TibberPulseClient.async_get: the exception it raises, "none" when it
\* returns the body. Only ClientResponseError (raise_for_status) and
\* asyncio.TimeoutError are caught and wrapped.
AsyncGet(resp) ==
  CASE resp.end = "connection_error" -> "ClientConnectionError"
    [] resp.end = "timeout" -> "TibberPulseClientError"
    [] resp.status \in {401, 403} -> "TibberPulseAuthError"
    [] resp.status >= 400 -> "TibberPulseClientError"
    [] resp.end = "invalid_json" -> "JSONDecodeError"
    [] OTHER -> "none"

\* TibberPulseCoordinator._async_update_data: what it ends with, given what
\* async_get_device raised
UpdateData(raised) ==
  CASE raised = "none" -> "data"
    [] raised = "TibberPulseAuthError" -> "ConfigEntryAuthFailed"
    [] raised = "TibberPulseClientError" -> "UpdateFailed"
    [] OTHER -> raised

\* a refresh starts: _async_update_data up to the await in async_get
RestRefresh ==
  /\ component = "rest"
  /\ rest_pc = "idle"
  /\ Len(rest_log) < MaxRequests
  /\ rest_pc' = "requesting"
  /\ UNCHANGED rest_log
  /\ UNCHANGED nonRestVars

\* the request ends with resp: the rest of async_get and _async_update_data
RestRequestEnds(resp) ==
  /\ component = "rest"
  /\ rest_pc = "requesting"
  /\ rest_pc' = "idle"
  /\ rest_log' = Append(rest_log, [resp |-> resp,
                                    raised |-> AsyncGet(resp),
                                    outcome |-> UpdateData(AsyncGet(resp))])
  /\ UNCHANGED nonRestVars

RestNext ==
  \/ RestRefresh
  \/ \E resp \in Responses : RestRequestEnds(resp)

\* ============================== sensor platform of the REST integration
\* (custom_components/tibber_pulse_p1/sensor.py). Text is a sequence of
\* one-character strings, so that the character-level steps of
\* _normalize_capability_id and str.lower are computed, not assumed.
LowerLetters ==
  {"a", "b", "c", "d", "e", "f", "g", "h", "i", "j", "k", "l", "m", "n", "o",
   "p", "q", "r", "s", "t", "u", "v", "w", "x", "y", "z"}
UpperLetters ==
  {"A", "B", "C", "D", "E", "F", "G", "H", "I", "J", "K", "L", "M", "N", "O",
   "P", "Q", "R", "S", "T", "U", "V", "W", "X", "Y", "Z"}
DigitChars ==
  <<"0", "1", "2", "3", "4", "5", "6", "7", "8", "9">>

IsLower(c) == c \in LowerLetters
IsUpper(c) == c \in UpperLetters
IsDigit(c) == \E i \in DOMAIN DigitChars : DigitChars[i] = c

\* the lowercase letter of each uppercase letter
LowerOf ==
  ("A" :> "a") @@ ("B" :> "b") @@ ("C" :> "c") @@ ("D" :> "d") @@
  ("E" :> "e") @@ ("F" :> "f") @@ ("G" :> "g") @@ ("H" :> "h") @@
  ("I" :> "i") @@ ("J" :> "j") @@ ("K" :> "k") @@ ("L" :> "l") @@
  ("M" :> "m") @@ ("N" :> "n") @@ ("O" :> "o") @@ ("P" :> "p") @@
  ("Q" :> "q") @@ ("R" :> "r") @@ ("S" :> "s") @@ ("T" :> "t") @@
  ("U" :> "u") @@ ("V" :> "v") @@ ("W" :> "w") @@ ("X" :> "x") @@
  ("Y" :> "y") @@ ("Z" :> "z")

\* str.lower on one character
LowerChar(c) == IF IsUpper(c) THEN LowerOf[c] ELSE c
\* str.lower
Lower(s) == IF s = <<>> THEN <<>> ELSE [i \in DOMAIN s |-> LowerChar(s[i])]

\* faulty variant: no separator is inserted at a case boundary
InsertSeparators_None(s) == s

\* re.sub(r"([a-z0-9])([A-Z])", r"\1_\2", capability_id)
RECURSIVE InsertSeparators(_)
InsertSeparators(s) ==
  IF Len(s) < 2 THEN s
  ELSE IF (IsLower(s[1]) \/ IsDigit(s[1])) /\ IsUpper(s[2])
       THEN <<s[1], "_">> \o InsertSeparators(Tail(s))
       ELSE <<s[1]>> \o InsertSeparators(Tail(s))

\* snake.replace(".", "_").replace("-", "_")
ReplaceSeparators(s) ==
  IF s = <<>> THEN <<>>
  ELSE [i \in DOMAIN s |-> IF s[i] \in {".", "-"} THEN "_" ELSE s[i]]

\* re.sub(r"__+", "_", snake)
RECURSIVE CollapseSeparators(_)
CollapseSeparators(s) ==
  IF Len(s) < 2 THEN s
  ELSE IF s[1] = "_" /\ s[2] = "_"
       THEN CollapseSeparators(Tail(s))
       ELSE <<s[1]>> \o CollapseSeparators(Tail(s))

NormalizeCapabilityId(capability_id) ==
  Lower(CollapseSeparators(ReplaceSeparators(
    InsertSeparators(capability_id))))

\* ---- values of a capability: a number n/d, a text, or None
Number(n, d) == [t |-> "num", n |-> n, d |-> d, text |-> <<>>]
Text(s) == [t |-> "str", n |-> 0, d |-> 1, text |-> s]
None == [t |-> "none", n |-> 0, d |-> 1, text |-> <<>>]

\* float(text) succeeds. Of the texts float() accepts only the unsigned
\* digit strings are modelled (no sign, point, exponent, blanks, nan, inf).
ParsesAsFloat(text) ==
  text # <<>> /\ \A i \in DOMAIN text : IsDigit(text[i])

DigitValue(c) == (CHOOSE i \in DOMAIN DigitChars : DigitChars[i] = c) - 1

\* float(text) of a digit string
RECURSIVE FloatOf(_)
FloatOf(text) ==
  IF text = <<>> THEN 0
  ELSE 10 * FloatOf(SubSeq(text, 1, Len(text) - 1))
         + DigitValue(text[Len(text)])

\* faulty variant: only numbers count, numeric text does not
IsNumericValue_NumbersOnly(value) == value.t = "num"

IsNumericValue(value) ==
  \/ value.t = "num"
  \/ value.t = "str" /\ ParsesAsFloat(value.text)

CoerceNumber(value) ==
  IF value.t = "str" /\ ParsesAsFloat(value.text)
  THEN Number(FloatOf(value.text), 1)
  ELSE value

\* faulty variant: divides by 100
ConvertWhToKwh_Hundred(value) ==
  IF value.t = "none" THEN value ELSE [value EXCEPT !.d = @ * 100]

\* float(value) / 1000
ConvertWhToKwh(value) ==
  IF value.t = "none" THEN value ELSE [value EXCEPT !.d = @ * 1000]

Identity(value) == value

\* a unit that is absent from the payload or empty, and the None unit of a
\* description: its lowercased text is not "wh"
NoUnit == <<>>
\* UnitOfEnergy.KILO_WATT_HOUR
KILO_WATT_HOUR == <<"k", "W", "h">>

\* the table, as [key, ids, unit (native_unit_of_measurement)]
CAPABILITY_SPECS == <<
  [key |-> <<"p", "o", "w", "e", "r", "_", "t", "o", "t", "a", "l">>,
   ids |-> {<<"p", "o", "w", "e", "r">>,
            <<"p", "o", "w", "e", "r", "_", "i", "m", "p", "o", "r", "t">>,
            <<"a", "c", "t", "i", "v", "e", "_", "p", "o", "w", "e", "r">>,
            <<"p", "o", "w", "e", "r", "_", "t", "o", "t", "a", "l">>,
            <<"p", "o", "w", "e", "r", "_", "n", "e", "t">>},
   unit |-> <<"W">>],
  [key |-> <<"p", "o", "w", "e", "r", "_", "e", "x", "p", "o", "r", "t">>,
   ids |-> {<<"p", "o", "w", "e", "r", "_", "e", "x", "p", "o", "r", "t">>,
            <<"p", "o", "w", "e", "r", "_", "p", "r", "o", "d", "u", "c", "t",
              "i", "o", "n">>,
            <<"a", "c", "t", "i", "v", "e", "_", "p", "o", "w", "e", "r", "_",
              "e", "x", "p", "o", "r", "t">>},
   unit |-> <<"W">>],
  [key |-> <<"e", "n", "e", "r", "g", "y", "_", "t", "o", "t", "a", "l">>,
   ids |-> {<<"a", "c", "c", "u", "m", "u", "l", "a", "t", "e", "d", "_", "c",
              "o", "n", "s", "u", "m", "p", "t", "i", "o", "n">>,
            <<"e", "n", "e", "r", "g", "y", "_", "i", "m", "p", "o", "r", "t",
              "_", "t", "o", "t", "a", "l">>,
            <<"l", "a", "s", "t", "_", "m", "e", "t", "e", "r", "_", "c", "o",
              "n", "s", "u", "m", "p", "t", "i", "o", "n">>},
   unit |-> <<"k", "W", "h">>],
  [key |-> <<"e", "n", "e", "r", "g", "y", "_", "e", "x", "p", "o", "r", "t",
             "_", "t", "o", "t", "a", "l">>,
   ids |-> {<<"a", "c", "c", "u", "m", "u", "l", "a", "t", "e", "d", "_", "p",
              "r", "o", "d", "u", "c", "t", "i", "o", "n">>,
            <<"e", "n", "e", "r", "g", "y", "_", "e", "x", "p", "o", "r", "t",
              "_", "t", "o", "t", "a", "l">>,
            <<"l", "a", "s", "t", "_", "m", "e", "t", "e", "r", "_", "p", "r",
              "o", "d", "u", "c", "t", "i", "o", "n">>},
   unit |-> <<"k", "W", "h">>],
  [key |-> <<"p", "o", "w", "e", "r", "_", "l", "1">>,
   ids |-> {<<"p", "o", "w", "e", "r", "_", "p", "h", "a", "s", "e", "1">>,
            <<"p", "o", "w", "e", "r", "_", "l", "1">>,
            <<"p", "h", "a", "s", "e", "1", "_", "p", "o", "w", "e", "r">>},
   unit |-> <<"W">>],
  [key |-> <<"p", "o", "w", "e", "r", "_", "l", "2">>,
   ids |-> {<<"p", "o", "w", "e", "r", "_", "p", "h", "a", "s", "e", "2">>,
            <<"p", "o", "w", "e", "r", "_", "l", "2">>,
            <<"p", "h", "a", "s", "e", "2", "_", "p", "o", "w", "e", "r">>},
   unit |-> <<"W">>],
  [key |-> <<"p", "o", "w", "e", "r", "_", "l", "3">>,
   ids |-> {<<"p", "o", "w", "e", "r", "_", "p", "h", "a", "s", "e", "3">>,
            <<"p", "o", "w", "e", "r", "_", "l", "3">>,
            <<"p", "h", "a", "s", "e", "3", "_", "p", "o", "w", "e", "r">>},
   unit |-> <<"W">>],
  [key |-> <<"v", "o", "l", "t", "a", "g", "e", "_", "l", "1">>,
   ids |-> {<<"v", "o", "l", "t", "a", "g", "e", "_", "p", "h", "a", "s", "e",
              "1">>,
            <<"v", "o", "l", "t", "a", "g", "e", "_", "l", "1">>,
            <<"p", "h", "a", "s", "e", "1", "_", "v", "o", "l", "t", "a", "g",
              "e">>},
   unit |-> <<"V">>],
  [key |-> <<"v", "o", "l", "t", "a", "g", "e", "_", "l", "2">>,
   ids |-> {<<"v", "o", "l", "t", "a", "g", "e", "_", "p", "h", "a", "s", "e",
              "2">>,
            <<"v", "o", "l", "t", "a", "g", "e", "_", "l", "2">>,
            <<"p", "h", "a", "s", "e", "2", "_", "v", "o", "l", "t", "a", "g",
              "e">>},
   unit |-> <<"V">>],
  [key |-> <<"v", "o", "l", "t", "a", "g", "e", "_", "l", "3">>,
   ids |-> {<<"v", "o", "l", "t", "a", "g", "e", "_", "p", "h", "a", "s", "e",
              "3">>,
            <<"v", "o", "l", "t", "a", "g", "e", "_", "l", "3">>,
            <<"p", "h", "a", "s", "e", "3", "_", "v", "o", "l", "t", "a", "g",
              "e">>},
   unit |-> <<"V">>],
  [key |-> <<"c", "u", "r", "r", "e", "n", "t", "_", "l", "1">>,
   ids |-> {<<"c", "u", "r", "r", "e", "n", "t", "_", "l", "1">>,
            <<"p", "h", "a", "s", "e", "1", "_", "c", "u", "r", "r", "e", "n",
              "t">>,
            <<"c", "u", "r", "r", "e", "n", "t", "_", "p", "h", "a", "s", "e",
              "1">>},
   unit |-> <<"A">>],
  [key |-> <<"c", "u", "r", "r", "e", "n", "t", "_", "l", "2">>,
   ids |-> {<<"c", "u", "r", "r", "e", "n", "t", "_", "l", "2">>,
            <<"p", "h", "a", "s", "e", "2", "_", "c", "u", "r", "r", "e", "n",
              "t">>,
            <<"c", "u", "r", "r", "e", "n", "t", "_", "p", "h", "a", "s", "e",
              "2">>},
   unit |-> <<"A">>],
  [key |-> <<"c", "u", "r", "r", "e", "n", "t", "_", "l", "3">>,
   ids |-> {<<"c", "u", "r", "r", "e", "n", "t", "_", "l", "3">>,
            <<"p", "h", "a", "s", "e", "3", "_", "c", "u", "r", "r", "e", "n",
              "t">>,
            <<"c", "u", "r", "r", "e", "n", "t", "_", "p", "h", "a", "s", "e",
              "3">>},
   unit |-> <<"A">>],
  [key |-> <<"p", "o", "w", "e", "r", "_", "f", "a", "c", "t", "o", "r">>,
   ids |-> {<<"p", "o", "w", "e", "r", "_", "f", "a", "c", "t", "o", "r">>},
   unit |-> NoUnit],
  [key |-> <<"f", "r", "e", "q", "u", "e", "n", "c", "y">>,
   ids |-> {<<"g", "r", "i", "d", "_", "f", "r", "e", "q", "u", "e", "n", "c",
              "y">>,
            <<"f", "r", "e", "q", "u", "e", "n", "c", "y">>},
   unit |-> <<"H", "z">>],
  [key |-> <<"t", "e", "m", "p", "e", "r", "a", "t", "u", "r", "e">>,
   ids |-> {<<"t", "e", "m", "p", "e", "r", "a", "t", "u", "r", "e">>},
   unit |-> <<"°", "C">>]
>>

\* a table in which a second description repeats an alias of the first
SharedAliasSpecs ==
  [CAPABILITY_SPECS EXCEPT ![2].ids = @ \cup {<<"p", "o", "w", "e", "r">>}]

\* the tables handed to the construction of the module-level tuple
CandidateTables == {CAPABILITY_SPECS, SharedAliasSpecs}

\* _match_capability: the index of the first description whose ids hold the
\* normalized id, 0 for None
MatchCapability(tbl, capability_id) ==
  LET normalized_id == NormalizeCapabilityId(capability_id)
      hits == {i \in DOMAIN tbl : normalized_id \in tbl[i].ids}
  IN IF hits = {} THEN 0
     ELSE CHOOSE i \in hits : \A j \in hits : i <= j

\* _iter_capabilities: entries without an id are skipped (every entry of the
\* model is a dict)
IterCapabilities(payload) == SelectSeq(payload, LAMBDA c : c.id # <<>>)

\* faulty variant: a key that was seen is used again
Keeps_Always(key, seen_keys) == TRUE

\* if key in seen_keys: continue
Keeps(key, seen_keys) == key \notin seen_keys

\* the loop of async_setup_entry over the capabilities
RECURSIVE SetupLoop(_, _, _, _)
SetupLoop(tbl, caps, seen_keys, ents) ==
  IF caps = <<>> THEN ents
  ELSE LET capability == Head(caps)
           spec == MatchCapability(tbl, capability.id)
           key == IF spec # 0 THEN tbl[spec].key
                  ELSE NormalizeCapabilityId(capability.id)
           creates == /\ spec # 0 \/ IsNumericValue(capability.value)
                      /\ Keeps(key, seen_keys)
           entity == [key |-> key,
                      capability_id |-> capability.id,
                      unit |-> IF spec # 0 THEN tbl[spec].unit
                               ELSE capability.unit,
                      passthrough |-> spec = 0]
       IN SetupLoop(tbl, Tail(caps),
                    IF creates THEN seen_keys \cup {key} ELSE seen_keys,
                    IF creates THEN Append(ents, entity) ELSE ents)

\* the entities async_setup_entry adds for a device payload
SetupEntities(tbl, payload) ==
  SetupLoop(tbl, IterCapabilities(payload), {}, <<>>)

\* _get_capability: the first capability with the entity's id, <<>> for None
GetCapability(payload, capability_id) ==
  LET found == SelectSeq(IterCapabilities(payload),
                         LAMBDA c : c.id = capability_id)
  IN IF found = <<>> THEN <<>> ELSE <<Head(found)>>

\* TibberPulseSensor.native_value
NativeValue(entity, payload) ==
  LET capability == GetCapability(payload, entity.capability_id)
  IN IF capability = <<>> THEN None
     ELSE LET raw_value == CoerceNumber(capability[1].value)
          IN IF raw_value.t # "num" THEN raw_value
             ELSE IF /\ entity.unit = KILO_WATT_HOUR
                     /\ Lower(capability[1].unit) = <<"w", "h">>
                  THEN ConvertWhToKwh(raw_value)
                  ELSE Identity(raw_value)

\* ---- inputs
IdChars == {"a", "B", "1", ".", "-", "_"}
RECURSIVE Strings(_, _)
\* the texts over chars of length n or less
Strings(chars, n) ==
  IF n = 0 THEN {<<>>}
  ELSE LET shorter == Strings(chars, n - 1)
       IN shorter \cup {Append(s, c) : s \in shorter, c \in chars}

ID_PowerPhase1 ==
  <<"P", "o", "w", "e", "r", "P", "h", "a", "s", "e", "1">>
ID_power_dash_phase1 ==
  <<"p", "o", "w", "e", "r", "-", "p", "h", "a", "s", "e", "1">>
ID_accumulated_consumption ==
  <<"a", "c", "c", "u", "m", "u", "l", "a", "t", "e", "d", "_", "c", "o", "n",
    "s", "u", "m", "p", "t", "i", "o", "n">>
ID_energy_total ==
  <<"e", "n", "e", "r", "g", "y", "_", "t", "o", "t", "a", "l">>
ID_signalStrength ==
  <<"s", "i", "g", "n", "a", "l", "S", "t", "r", "e", "n", "g", "t", "h">>
ID_signal_dot_strength ==
  <<"s", "i", "g", "n", "a", "l", ".", "s", "t", "r", "e", "n", "g", "t", "h">>

SampleIds ==
  {ID_PowerPhase1, ID_power_dash_phase1, ID_accumulated_consumption,
   ID_energy_total, ID_signalStrength, ID_signal_dot_strength}
\* the ids given to _normalize_capability_id
RawIds == SampleIds \cup Strings(IdChars, MaxIdLen)
\* the ids of the capabilities of a device payload; <<>> is a missing id
SetupIds == SampleIds \cup {<<>>}

SetupValues ==
  {Number(1500, 1), Text(<<"1", "5">>), Text(<<"n", "/", "a">>)}
ReadValues == SetupValues \cup {None}
SetupUnits == {<<"W", "h">>, NoUnit}
ReadUnits == SetupUnits \cup {<<"W", "H">>, <<"k", "W", "h">>}

Capabilities == [id : SetupIds, value : SetupValues, unit : SetupUnits]
\* in the payloads of several capabilities the number comes in Wh and the
\* texts come without a unit
ListedCapabilities ==
  {c \in Capabilities : c.unit = <<"W", "h">> <=> c.value.t = "num"}
\* coordinator.data["capabilities"] at setup
DevicePayloads ==
  {<<>>} \cup {<<c>> : c \in Capabilities}
    \cup UNION {[1..n -> ListedCapabilities] : n \in 2..MaxCaps}

SensorInit ==
  /\ table = <<>>
  /\ sensor_op = "none"
  /\ cap_id = <<>>
  /\ normalized = <<>>
  /\ data = <<>>
  /\ entities = <<>>
  /\ reading = None

\* import of sensor.py: the module-level tuple is built from the
\* descriptions; nothing inspects their ids
SensorImport(descs) ==
  /\ component = "sensor"
  /\ table = <<>>
  /\ table' = descs
  /\ UNCHANGED <<sensor_op, cap_id, normalized, data, entities, reading>>
  /\ UNCHANGED nonSensorVars

\* _normalize_capability_id(raw)
SensorNormalize(raw) ==
  /\ component = "sensor"
  /\ sensor_op = "none"
  /\ table = CAPABILITY_SPECS
  /\ sensor_op' = "normalize"
  /\ cap_id' = raw
  /\ normalized' = NormalizeCapabilityId(raw)
  /\ data' = <<>>
  /\ entities' = <<>>
  /\ reading' = None
  /\ UNCHANGED table
  /\ UNCHANGED nonSensorVars

\* async_setup_entry with coordinator.data = payload
SensorSetupEntry(payload) ==
  /\ component = "sensor"
  /\ sensor_op = "none"
  /\ table = CAPABILITY_SPECS
  /\ sensor_op' = "setup"
  /\ data' = payload
  /\ entities' = SetupEntities(table, payload)
  /\ cap_id' = <<>>
  /\ normalized' = <<>>
  /\ reading' = None
  /\ UNCHANGED table
  /\ UNCHANGED nonSensorVars

\* the coordinator refreshes and entity i is read: the capability of the
\* entity now has this unit and value, or is gone from the payload
SensorNativeValue(i, unit, value, gone) ==
  /\ component = "sensor"
  /\ sensor_op = "setup"
  /\ Len(data) <= MaxReadCaps
  /\ i \in DOMAIN entities
  /\ LET id == entities[i].capability_id
         refreshed ==
           IF gone THEN SelectSeq(data, LAMBDA c : c.id # id)
           ELSE [j \in DOMAIN data |->
                   IF data[j].id = id
                   THEN [data[j] EXCEPT !.unit = unit, !.value = value]
                   ELSE data[j]]
     IN /\ data' = refreshed
        /\ reading' = NativeValue(entities[i], refreshed)
        /\ cap_id' = id
  /\ sensor_op' = "native_value"
  /\ UNCHANGED <<table, normalized, entities>>
  /\ UNCHANGED nonSensorVars

\* the inputs of the first call on the imported module; no input is drawn
\* once a behaviour follows a call
FirstCall(inputs) == IF sensor_op = "none" THEN inputs ELSE {}

SensorNext ==
  \/ \E descs \in CandidateTables : SensorImport(descs)
  \/ \E raw \in FirstCall(RawIds) : SensorNormalize(raw)
  \/ \E payload \in FirstCall(DevicePayloads) : SensorSetupEntry(payload)
  \/ \E i \in 1..MaxCaps, unit \in ReadUnits, value \in ReadValues,
        gone \in BOOLEAN : SensorNativeValue(i, unit, value, gone)

\* ================================== config flow of tibber_pulse_phases
\* (custom_components/tibber_pulse_phases/config_flow.py). A token is a
\* sequence of one-character strings, so that str.strip is computed.
Whitespace == {" ", "\t", "\n"}

RECURSIVE StripLeft(_)
StripLeft(s) ==
  IF s # <<>> /\ Head(s) \in Whitespace THEN StripLeft(Tail(s)) ELSE s

RECURSIVE StripRight(_)
StripRight(s) ==
  IF s # <<>> /\ s[Len(s)] \in Whitespace
  THEN StripRight(SubSeq(s, 1, Len(s) - 1)) ELSE s

\* str.strip()
Strip(s) == StripRight(StripLeft(s))

\* self._token before the token step has stored one
NoToken == <<"None">>

\* what the user types into the token field
TokenInputs ==
  {<<"a">>, <<" ", "a", "\n">>, <<"b", " ">>, <<"a", " ", "b">>, <<" ">>}

\* the homes of the viewer: [id, appNickname, address1], "" for a missing
\* nickname
Home1 == [id |-> "home-1", appNickname |-> "Cabin", address1 |-> "Road 1"]
Home2 == [id |-> "home-2", appNickname |-> "", address1 |-> "Street 2"]
HomeLists == {<<>>, <<Home1>>, <<Home1, Home2>>}

\* the JSON body of the answer: a GraphQL error list, or data with the homes
Bodies ==
  [errors : {TRUE}, homes : {<<>>}] \cup [errors : {FALSE}, homes : HomeLists]

\* _fetch_homes: the exception it raises ("none" when it returns) and the
\* list it returns. session.post raises for a timeout or a failed connection,
\* raise_for_status raises ClientResponseError for every status from 400 on,
\* resp.json() raises for a body that is not JSON, and a body with "errors"
\* becomes ValueError.
FetchHomes(resp, body) ==
  CASE resp.end = "connection_error" ->
         [raised |-> "ClientConnectionError", homes |-> <<>>]
    [] resp.end = "timeout" -> [raised |-> "TimeoutError", homes |-> <<>>]
    [] resp.status >= 400 -> [raised |-> "ClientResponseError", homes |-> <<>>]
    [] resp.end = "invalid_json" ->
         [raised |-> "JSONDecodeError", homes |-> <<>>]
    [] body.errors -> [raised |-> "ValueError", homes |-> <<>>]
    [] OTHER -> [raised |-> "none", homes |-> body.homes]

\* the except clauses of async_step_user: except aiohttp.ClientResponseError,
\* then except Exception
FetchError(raised) ==
  IF raised = "ClientResponseError" THEN "invalid_auth" ELSE "cannot_connect"

\* home.get("appNickname") or home.get("address", {}).get("address1")
HomeName(home) ==
  IF home.appNickname # "" THEN home.appNickname ELSE home.address1

NoFetch ==
  [made |-> FALSE, token |-> <<>>,
   resp |-> [end |-> "response", status |-> 200],
   body |-> [errors |-> FALSE, homes |-> <<>>], raised |-> "none"]

FlowInit ==
  /\ flow_step = "user"
  /\ flow_token = NoToken
  /\ flow_homes = <<>>
  /\ flow_errors = ""
  /\ flow_fetch = NoFetch
  /\ flow_entry = <<>>
  /\ flow_submits = 0

\* async_step_user(None): the empty token form
FlowShowUser ==
  /\ component = "flow"
  /\ flow_step = "user"
  /\ flow_submits < MaxSubmits
  /\ flow_submits' = flow_submits + 1
  /\ flow_errors' = ""
  /\ flow_fetch' = NoFetch
  /\ UNCHANGED <<flow_step, flow_token, flow_homes, flow_entry>>
  /\ UNCHANGED nonFlowVars

\* async_step_user(user_input) with a token: strip it, fetch the homes, and
\* either show the token form again with an error or go on to
\* async_step_home(None), which asserts self._token and shows the home form
FlowStepUser(input, resp, body) ==
  /\ component = "flow"
  /\ flow_step = "user"
  /\ flow_submits < MaxSubmits
  /\ flow_submits' = flow_submits + 1
  /\ LET token == Strip(input)
         fetched == FetchHomes(resp, body)
     IN /\ flow_fetch' = [made |-> TRUE, token |-> token, resp |-> resp,
                          body |-> body, raised |-> fetched.raised]
        /\ IF fetched.raised # "none"
           THEN /\ flow_errors' = FetchError(fetched.raised)
                /\ UNCHANGED <<flow_step, flow_token, flow_homes>>
           ELSE /\ flow_homes' = fetched.homes
                /\ flow_token' = token
                /\ IF fetched.homes = <<>>
                   THEN flow_errors' = "no_homes" /\ UNCHANGED flow_step
                   ELSE /\ flow_errors' = ""
                        /\ flow_step' = IF token = <<>> THEN "raised"
                                        ELSE "home"
  /\ UNCHANGED flow_entry
  /\ UNCHANGED nonFlowVars

\* async_step_home(user_input) with one of the offered homes: abort when an
\* entry with that unique id is configured, else create the entry
FlowStepHome(i, configured) ==
  /\ component = "flow"
  /\ flow_step = "home"
  /\ i \in DOMAIN flow_homes
  /\ flow_submits < MaxSubmits
  /\ flow_submits' = flow_submits + 1
  /\ IF configured
     THEN flow_step' = "abort" /\ UNCHANGED flow_entry
     ELSE /\ flow_step' = "create_entry"
          /\ flow_entry' = <<[token |-> flow_token,
                              home_id |-> flow_homes[i].id,
                              home_name |-> HomeName(flow_homes[i])]>>
  /\ UNCHANGED <<flow_token, flow_homes, flow_errors, flow_fetch>>
  /\ UNCHANGED nonFlowVars

FlowNext ==
  \/ FlowShowUser
  \/ \E input \in TokenInputs, resp \in Responses, body \in Bodies :
       FlowStepUser(input, resp, body)
  \/ \E i \in 1..2, configured \in BOOLEAN : FlowStepHome(i, configured)

\* ========================================================== specifications
\* the hub alone; no coordinator call is made
Init ==
  /\ component = "hub"
  /\ HubInit
  /\ CoordInit
  /\ RestInit
  /\ SensorInit
  /\ FlowInit
  /\ shared_tibber = FALSE
  /\ home_known = FALSE

Next == HubNext

Spec == Init /\ [][Next]_vars

\* the coordinator alone, with or without a shared Tibber client in
\* hass.data, whose homes do or do not include the configured home
InitCoord ==
  /\ component = "coordinator"
  /\ HubInit
  /\ CoordInit
  /\ RestInit
  /\ SensorInit
  /\ FlowInit
  /\ shared_tibber \in BOOLEAN
  /\ home_known \in (IF shared_tibber THEN BOOLEAN ELSE {FALSE})

SpecCoord == InitCoord /\ [][CoordNext]_vars

\* the hub as its config entry drives it: async_setup is called once, the
\* sensor entities register their listeners, the event loop runs their jobs
EntryNext ==
  \/ AsyncSetupEntry
  \/ \E rt \in BOOLEAN : AsyncSetupResume(rt)
  \/ AsyncSetupRaise
  \/ AsyncStop
  \/ \E t \in TaskIds : WsLoopTest(t)
  \/ \E t \in TaskIds, o \in ConnectOutcomes : WsConnect(t, o)
  \/ \E t \in TaskIds, ok \in BOOLEAN : WsSend(t, ok)
  \/ \E t \in TaskIds, f \in Frames : WsReceive(t, f)
  \/ \E t \in TaskIds, clean \in BOOLEAN : WsClosed(t, clean)
  \/ \E t \in TaskIds : PollLoopTest(t)
  \/ \E t \in TaskIds, p \in Payloads : PollResponse(t, p)
  \/ \E t \in TaskIds : PollFailure(t)
  \/ \E l \in 1..MaxListeners : AddListener(l)
  \/ \E r \in BOOLEAN : ListenerJob(r)

SpecEntry == Init /\ [][EntryNext]_vars

\* the hub from the setup of its config entry to the unloading of it: the
\* hub is stored in hass.data once async_setup has returned, and only
\* async_unload_entry stops it
UnloadNext ==
  \/ AsyncSetupEntry
  \/ \E rt \in BOOLEAN : EntrySetupResume(rt)
  \/ AsyncSetupRaise
  \/ \E ok \in BOOLEAN : AsyncUnloadEntry(ok)
  \/ \E t \in TaskIds : WsLoopTest(t)
  \/ \E t \in TaskIds, o \in ConnectOutcomes : WsConnect(t, o)
  \/ \E t \in TaskIds, ok \in BOOLEAN : WsSend(t, ok)
  \/ \E t \in TaskIds, f \in Frames : WsReceive(t, f)
  \/ \E t \in TaskIds, clean \in BOOLEAN : WsClosed(t, clean)
  \/ \E t \in TaskIds : PollLoopTest(t)
  \/ \E t \in TaskIds, p \in Payloads : PollResponse(t, p)
  \/ \E t \in TaskIds : PollFailure(t)

SpecUnload == Init /\ [][UnloadNext]_vars

\* the same hub under the event loop's scheduling: a request that was sent
\* ends (with an answer or an error), a sleep ends, a ready task and a queued
\* job run. Nothing obliges the server to send a frame or to close.
FairSpecEntry ==
  /\ SpecEntry
  /\ WF_vars((\E rt \in BOOLEAN : AsyncSetupResume(rt)) \/ AsyncSetupRaise)
  /\ WF_vars(\E t \in TaskIds : WsLoopTest(t))
  /\ WF_vars(\E t \in TaskIds, o \in ConnectOutcomes : WsConnect(t, o))
  /\ WF_vars(\E t \in TaskIds, ok \in BOOLEAN : WsSend(t, ok))
  /\ WF_vars(\E t \in TaskIds : PollLoopTest(t))
  /\ WF_vars(\E t \in TaskIds :
               (\E p \in Payloads : PollResponse(t, p)) \/ PollFailure(t))
  /\ WF_vars(\E r \in BOOLEAN : ListenerJob(r))

\* the REST client and its polling coordinator alone
InitRest ==
  /\ component = "rest"
  /\ HubInit
  /\ CoordInit
  /\ RestInit
  /\ SensorInit
  /\ FlowInit
  /\ shared_tibber = FALSE
  /\ home_known = FALSE

SpecRest == InitRest /\ [][RestNext]_vars

\* the sensor platform of the REST integration alone
InitSensor ==
  /\ component = "sensor"
  /\ HubInit
  /\ CoordInit
  /\ RestInit
  /\ SensorInit
  /\ FlowInit
  /\ shared_tibber = FALSE
  /\ home_known = FALSE

SpecSensor == InitSensor /\ [][SensorNext]_vars

\* the config flow of tibber_pulse_phases alone
InitFlow ==
  /\ component = "flow"
  /\ HubInit
  /\ CoordInit
  /\ RestInit
  /\ SensorInit
  /\ FlowInit
  /\ shared_tibber = FALSE
  /\ home_known = FALSE

SpecFlow == InitFlow /\ [][FlowNext]_vars

\* either integration, each as its config entry drives it
InitEither == Init \/ InitCoord

SpecEither == InitEither /\ [][EntryNext \/ CoordNext]_vars

\* ================================================================== claims
Running(t) == t # 0 /\ tasks[t].pc \notin {"done", "cancelled"}

\* C1: for one hub the receive loop and the polling loop are never both
\* active, whatever sequence of async_setup and async_stop calls is made.
\* (Violated: a second async_setup whose realtime check answers differently
\* starts the other loop next to the first one.)
C1_LoopsExclusive == ~(Running(ws_task) /\ Running(poll_task))

\* C2: while the hub is not stopped, every end of a websocket connection
\* (connect failure, send failure, receive error, close by the server) leads
\* to the 10 s sleep, the sleep leads to a new connection attempt, and the
\* loop ends only once async_stop has been called.
C2_ReconnectsUntilStopped ==
  [][\A t \in TaskIds :
       LET a == tasks[t]
           b == tasks'[t]
       IN a.kind = "ws" =>
            /\ (a.pc \in WsConnected \cup {"connecting"}
                  /\ b.pc \notin WsConnected \cup {"connecting"})
                 => b.pc \in {"sleep", "cancelled"}
            /\ (a.pc = "sleep" /\ b.pc # "sleep")
                 => (b.pc = "connecting" \/ stopped')
            /\ b.pc \in {"done", "cancelled"} => stopped']_vars

\* a new connection attempt is under way after a connection failed
C2_Witness ==
  \E t \in TaskIds :
    /\ tasks[t].kind = "ws"
    /\ tasks[t].pc = "connecting"
    /\ tasks[t].err = "transient"
    /\ ~stopped

\* C3: after an authentication failure on connect, _run_ws makes no further
\* connection attempt. (Violated: the rejection is logged like any other
\* WebSocketException and the loop connects again after the sleep.)
C3_AuthFailureIsTerminal ==
  [][\A t \in TaskIds :
       (tasks[t].kind = "ws" /\ tasks[t].err = "auth")
         => ~(tasks[t].pc # "connecting" /\ tasks'[t].pc = "connecting")]_vars

\* C4: after the first async_stop the hub stays stopped: no connection
\* attempt and no poll request is started, and last_payload and
\* available_keys never change, also when async_setup is called afterwards.
\* (Violated by a poll task that a repeated async_setup left unreferenced.)
C4_StoppedIsFinal ==
  [][stopped =>
       /\ stopped'
       /\ last_payload' = last_payload
       /\ available_keys' = available_keys
       /\ \A t \in DOMAIN tasks' :
            tasks'[t].pc \in {"connecting", "request"}
              => (t \in DOMAIN tasks /\ tasks[t].pc = tasks'[t].pc)]_vars

\* C10: available_keys only grows: no realtime message and no poll result
\* removes a key from it.
C10_KeysOnlyGrow == [][available_keys \subseteq available_keys']_vars

\* a payload that omits a previously seen field has been accepted
C10_Witness ==
  \E k \in available_keys : DOMAIN last_payload # {} /\ k \notin DOMAIN last_payload

\* C5: with a borrowed (shared) Tibber client, async_stop never
\* unsubscribes, disconnects or closes the shared subscription or client.
\* (Violated: async_stop calls rt_unsubscribe on the home whoever owns it.)
C5_BorrowedNeverTornDown ==
  c_tibber = "shared" => \A o \in OpNames \ {"rt_subscribe"} : client_ops[o] = 0

\* C6: with a shared Tibber client, startup never calls rt_subscribe; it
\* only wraps the home's existing callback, and from then on every payload
\* runs the external owner's callback first and the coordinator's second.
C6_PiggybackOnly ==
  shared_tibber =>
    /\ client_ops["rt_subscribe"] = 0
    /\ "own" \in Range(home_rt_callback) => home_rt_callback = <<"ext", "own">>
    /\ "own" \in Range(last_invoked) => last_invoked = <<"ext", "own">>

\* a payload was delivered after the coordinator attached, and a snapshot
\* of it has reached the coordinator
C6_Witness ==
  /\ shared_tibber
  /\ last_invoked = <<"ext", "own">>
  /\ handled

\* C7: in borrowed mode the attach loop makes up to 120 checks, 1 s apart:
\* a check that finds the home's callback wraps it and the setup returns
\* without error; a check that finds none sleeps; only after 120 failed
\* checks the setup raises ConfigEntryNotReady.
C7_AttachWindow ==
  [][\A c \in CallIds :
       LET a == calls[c]
           b == calls'[c]
       IN (/\ shared_tibber
           /\ a.pc \in {"gather", "attach_sleep"}
           /\ (b # a \/ checks' # checks))
          => IF a.pc = "attach_sleep" /\ checks = RT_ATTACH_CHECKS
             THEN /\ b.pc = "not_ready"
                  /\ home_rt_callback' = home_rt_callback
             ELSE IF home_rt_callback # <<>>
             THEN /\ b.pc = "waiting"
                  /\ home_rt_callback' = <<"ext", "own">>
             ELSE /\ b.pc = "attach_sleep"
                  /\ checks' = checks + 1
                  /\ checks' <= RT_ATTACH_CHECKS]_vars

\* the setup gave up after the callback stayed unavailable for 120 checks
C7_Witness ==
  \E c \in CallIds :
    /\ calls[c].pc = "not_ready"
    /\ calls[c].why = "attach"
    /\ checks = RT_ATTACH_CHECKS
    /\ home_rt_callback = <<>>

SetupFailures == {"home_info", "home_info_auth", "no_home", "attach",
                  "subscribe", "subscribe_auth"}

\* C8: _async_update_data returns only after a snapshot has been handled,
\* and then returns a non-empty snapshot; a call whose setup did not fail
\* ends by returning the snapshot or, when the 90 s elapse first, by raising
\* NotReady. (Violated: a call made after an earlier call timed out waits on
\* the future that wait_for cancelled and ends with CancelledError.)
C8_FirstDataContract ==
  \A c \in CallIds :
    LET k == calls[c]
    IN /\ k.pc = "returned" => (handled /\ k.nonempty)
       /\ (k.pc \in Ended /\ k.why \notin SetupFailures)
            => \/ k.pc = "returned"
               \/ (k.pc = "not_ready" /\ k.why = "first_data")

\* C9: every call of _async_update_data ends by returning a snapshot, by
\* NotReady or by an authentication failure, never by another exception or
\* by a cancellation. (Violated: after a timed-out call the next call ends
\* with CancelledError.)
C9_OutcomesTyped ==
  \A c \in CallIds :
    calls[c].pc \in Ended => calls[c].pc \in {"returned", "not_ready", "auth_failed"}

\* C11: the latest snapshot is merged, not replaced: after a payload that
\* omits a field an earlier payload carried, last_payload still contains that
\* field with its last known value.
\* (Violated: the accepted payload replaces last_payload as a whole; only
\* available_keys keeps the omitted field.)
C11_SnapshotMerged ==
  [][\A f \in DOMAIN last_payload :
       /\ f \in DOMAIN last_payload'
       /\ (accepted' # accepted /\ f \notin DOMAIN accepted')
            => last_payload'[f] = last_payload[f]]_vars

\* C12: a listener whose callback fails does not keep any other registered
\* listener from being notified for the same snapshot: the job of a failing
\* listener takes no other scheduled job with it. In piggyback mode a failure
\* of the external owner's callback does not keep the coordinator's callback
\* from running for that payload.
C12_FailureIsolated ==
  /\ [][(/\ notify_parity' = notify_parity
         /\ hass_jobs' # hass_jobs
         /\ job_failed')
          => hass_jobs' = Tail(hass_jobs)]_vars
  /\ []((last_delivery.ext_raised /\ "own" \in Range(last_delivery.cb))
          => "own" \in Range(last_invoked))

\* a listener's callback has failed and the next listener's job for the same
\* snapshot is still scheduled
C12_Witness ==
  /\ job_failed
  /\ Len(listeners) = 2
  /\ hass_jobs = <<2>>

\* C13: every registered listener callback is scheduled exactly once for
\* each accepted snapshot, realtime or polled, and not at all for a
\* discarded message or poll result; a scheduled callback runs once.
C13_OncePerSnapshot ==
  [][IF notify_parity' # notify_parity
     THEN hass_jobs' = hass_jobs \o listeners
     ELSE \/ hass_jobs' = hass_jobs
          \/ (hass_jobs # <<>> /\ hass_jobs' = Tail(hass_jobs))]_vars

\* a snapshot was accepted with two listeners registered, and both are
\* scheduled once
C13_Witness ==
  /\ DOMAIN accepted # {}
  /\ listeners = <<1, 2>>
  /\ hass_jobs = <<1, 2>>

\* C14: an inbound frame that is not valid JSON, is not a JSON object of type
\* "data", or carries no non-empty liveMeasurement is discarded silently:
\* last_payload and available_keys stay as they are, no listener is
\* scheduled, and the receive loop goes on with the same connection.
\* (Violated: for valid JSON that is not an object, message.get raises; _run_ws
\* logs the error, leaves the connection and reconnects after the sleep.)
C14_DiscardedSilently ==
  [][/\ (accepted' = accepted)
          => /\ last_payload' = last_payload
             /\ available_keys' = available_keys
     /\ (notify_parity' = notify_parity)
          => Len(hass_jobs') <= Len(hass_jobs)
     /\ \A t \in TaskIds :
          (tasks[t].pc = "recv" /\ tasks'[t].pc # "recv")
            => tasks'[t].err # "handler"]_vars

\* C15: a failed poll does not end the polling loop: it leaves last_payload
\* and available_keys as they are and is followed by the same 60 s sleep as
\* any other poll; the sleep is followed by the next request unless the hub
\* was stopped, and the loop ends only once async_stop has been called.
C15_PollingSurvivesFailure ==
  [][\A t \in TaskIds :
       LET a == tasks[t]
           b == tasks'[t]
       IN a.kind = "poll" =>
            /\ (a.pc = "request" /\ b.pc # "request")
                 => b.pc \in {"sleep", "cancelled"}
            /\ (a.pc = "request" /\ b.pc = "sleep" /\ b.err = "transient")
                 => /\ last_payload' = last_payload
                    /\ available_keys' = available_keys
            /\ b.pc = "sleep" => b.delay = POLL_INTERVAL
            /\ (a.pc = "sleep" /\ b.pc # "sleep")
                 => (b.pc = "request" \/ stopped')
            /\ b.pc \in {"done", "cancelled"} => stopped']_vars

\* the next poll is under way after a failed one
C15_Witness ==
  \E t \in TaskIds :
    /\ tasks[t].kind = "poll"
    /\ tasks[t].pc = "request"
    /\ tasks[t].err = "transient"
    /\ ~stopped

\* C16: polling is also the fallback of a realtime hub whose connection can
\* never be established: once _run_ws is running, the hub is stopped, or a
\* connection is established, or a snapshot is obtained, by polling.
\* (Violated: _run_ws retries the connection for ever and nothing starts
\* _poll_loop.)
C16_PollingAfterRealtimeFailure ==
  (\E t \in TaskIds : tasks[t].kind = "ws")
    ~> \/ stopped
       \/ \E t \in TaskIds : tasks[t].pc \in WsConnected
       \/ DOMAIN last_payload # {}

\* C17: async_get raises TibberPulseAuthError exactly when the HTTP status
\* is 401 or 403; every other failure (another HTTP error status, a timeout,
\* a connection failure, an unreadable body) is raised as the non-auth
\* TibberPulseClientError, never as a raw transport exception.
\* (Violated: a connection failure is raised as aiohttp's own exception.)
C17_ErrorsTyped ==
  \A i \in DOMAIN rest_log :
    LET e == rest_log[i]
    IN /\ (e.raised = "TibberPulseAuthError") <=> (e.resp.status \in {401, 403})
       /\ (e.resp.end # "response" \/ e.resp.status >= 400)
            => e.raised \in {"TibberPulseAuthError", "TibberPulseClientError"}

\* the ways a call ends because the credential was rejected
AuthRejections == {"home_info_auth", "subscribe_auth"}

\* C18: every credential rejection met during the coordinator's startup,
\* while fetching the home info or while opening the realtime subscription,
\* ends the call with ConfigEntryAuthFailed, never with NotReady.
\* (Violated: every error of rt_subscribe becomes ConfigEntryNotReady.)
C18_RejectionIsAuthFailed ==
  \A c \in CallIds :
    calls[c].why \in AuthRejections => calls[c].pc = "auth_failed"

\* C19: when the coordinator owns its Tibber client, every async_stop
\* disconnects the realtime channel and closes the client connection, in
\* every state in which the client exists, also after a startup that failed
\* part-way; and it unsubscribes whenever rt_subscribe has been called.
C19_OwnedTornDown ==
  [][(stops' = stops + 1 /\ c_tibber = "own")
       => /\ client_ops'["disconnect"] = client_ops["disconnect"] + 1
          /\ client_ops'["close_connection"] = client_ops["close_connection"] + 1
          /\ client_ops["rt_subscribe"] > 0
               => client_ops'["rt_unsubscribe"] = client_ops["rt_unsubscribe"] + 1]_vars

\* the owned client was torn down after a startup that failed before a home
\* was found
C19_Witness ==
  /\ c_tibber = "own"
  /\ ~c_home
  /\ \E c \in CallIds : calls[c].pc \in {"not_ready", "auth_failed"}
  /\ stops > 0
  /\ client_ops["disconnect"] = stops
  /\ client_ops["close_connection"] = stops

\* C20: last_payload is empty until the first non-empty liveMeasurement
\* payload is accepted, from then on it equals the payload accepted last,
\* and it never becomes empty again.
C20_LatestAccepted ==
  /\ [](last_payload = accepted)
  /\ [][DOMAIN last_payload # {} => DOMAIN last_payload' # {}]_vars

\* a polled payload is the snapshot, after an earlier one with other fields
C20_Witness ==
  /\ DOMAIN accepted # {}
  /\ last_payload = accepted
  /\ available_keys # DOMAIN accepted
  /\ \E t \in TaskIds : tasks[t].kind = "poll" /\ tasks[t].pc = "sleep"


\* the connections of the hub's tasks that are open
OpenConnections == {t \in TaskIds : tasks[t].open}

\* C21: on a clean shutdown of an open subscription a stop frame is sent on
\* the connection before the connection is closed. (Violated: async_stop
\* only cancels the task; the cancellation closes the connection and
\* nothing is written on it first.)
C21_StopBeforeClose ==
  [][\A t \in TaskIds :
       (/\ tasks[t].open
        /\ tasks[t].pc = "recv"
        /\ tasks'[t].pc = "cancelled"
        /\ ~tasks'[t].open)
         => StopMsg \in Range(tasks[t].sent)]_vars

\* C22: on every connection and reconnection connection_init is sent first,
\* then start with the hub's home id, both before any inbound message of
\* that connection is processed.
C22_HandshakeFirst ==
  /\ [](\A t \in TaskIds :
          /\ tasks[t].open <=> tasks[t].pc \in WsConnected
          /\ tasks[t].pc = "send_init" => tasks[t].sent = <<>>
          /\ tasks[t].pc = "send_start" => tasks[t].sent = <<InitMsg>>
          /\ tasks[t].pc = "recv"
               => tasks[t].sent = <<InitMsg, StartMsg(home_id)>>)
  /\ [][(ws_task # 0 /\ accepted' # accepted)
          => tasks[ws_task].sent = <<InitMsg, StartMsg(home_id)>>]_vars

\* a frame was accepted on an earlier connection and the handshake of the
\* next connection is half done
C22_Witness ==
  /\ ws_task # 0
  /\ last_payload # EmptyPayload
  /\ tasks[ws_task].pc = "send_start"
  /\ tasks[ws_task].sent = <<InitMsg>>

\* C23: a hub holds at most one open websocket connection at any time, and
\* none once async_stop has cancelled the receive task. (Violated: a second
\* async_setup starts a second receive task next to the first one.)
C23_OneConnection ==
  /\ Cardinality(OpenConnections) <= 1
  /\ \A t \in TaskIds :
       tasks[t].pc \in {"sleep", "connecting", "cancelled", "done"}
         => ~tasks[t].open


\* ---- sensor platform
\* the entity async_setup_entry makes of one capability on its own:
\* <<>> or one entity
Measurement(capability) == SetupEntities(table, <<capability>>)

\* C24: canonical keys are stable under normalization: when a raw id, by a
\* table match or by pass-through, gets canonical key k, then k with the
\* same value gets canonical key k again. (Violated: the key energy_total
\* is not among the ids of its own description, so it is only kept by
\* pass-through, which needs a numeric value.)
C24_KeysStable ==
  (sensor_op = "setup" /\ Len(data) = 1 /\ entities # <<>>)
    => LET k == entities[1].key
           again == Measurement([data[1] EXCEPT !.id = k])
       IN again # <<>> /\ again[1].key = k

AliasesDisjoint(tbl) ==
  \A i, j \in DOMAIN tbl : i # j => tbl[i].ids \cap tbl[j].ids = {}

WhSpellings == {<<"W", "h">>, <<"W", "H">>, <<"w", "h">>, <<"w", "H">>}

\* the entity the last native_value call was made on
ReadEntity == entities[CHOOSE i \in DOMAIN entities :
                         entities[i].capability_id = cap_id]

\* C26: for a description in kWh a raw unit "wh", whatever its case, gives
\* value/1000 and any other raw unit gives the number unchanged; for a
\* description in another unit the number is never divided.
C26_WhToKwh ==
  (sensor_op = "native_value" /\ GetCapability(data, cap_id) # <<>>)
    => LET capability == GetCapability(data, cap_id)[1]
           raw == CoerceNumber(capability.value)
       IN raw.t = "num" =>
            IF ReadEntity.unit = <<"k", "W", "h">>
               /\ capability.unit \in WhSpellings
            THEN /\ reading.t = "num"
                 /\ reading.n * 1000 * raw.d = raw.n * reading.d
            ELSE reading = raw

\* 1500 Wh read on the kWh entity of accumulated_consumption, unit "WH"
C26_Witness ==
  /\ sensor_op = "native_value"
  /\ cap_id = ID_accumulated_consumption
  /\ GetCapability(data, cap_id) # <<>>
  /\ GetCapability(data, cap_id)[1].unit = <<"W", "H">>
  /\ reading = Number(1500, 1000)

\* the letters and digits of a text, in order
Alphanumerics(s) == SelectSeq(s, LAMBDA c : c \notin {"_", ".", "-"})

\* C27: _normalize_capability_id separates a lowercase letter or digit from
\* a following uppercase letter, turns "." and "-" into "_", collapses runs
\* of "_" and lowercases; "PowerPhase1" gives "power_phase1", which
\* _match_capability resolves to power_l1; the function is idempotent.
C27_Normalize ==
  sensor_op = "normalize" =>
    /\ \A i \in DOMAIN normalized :
         /\ ~IsUpper(normalized[i])
         /\ normalized[i] \notin {".", "-"}
         /\ i > 1 => ~(normalized[i - 1] = "_" /\ normalized[i] = "_")
    /\ Alphanumerics(normalized) = Lower(Alphanumerics(cap_id))
    /\ \A i \in 1..(Len(cap_id) - 1) :
         ((IsLower(cap_id[i]) \/ IsDigit(cap_id[i])) /\ IsUpper(cap_id[i + 1]))
           => Len(normalized) > Len(Alphanumerics(cap_id))
    /\ NormalizeCapabilityId(normalized) = normalized
    /\ cap_id = ID_PowerPhase1 =>
         /\ normalized = <<"p", "o", "w", "e", "r", "_",
                           "p", "h", "a", "s", "e", "1">>
         /\ MatchCapability(table, cap_id) # 0
         /\ table[MatchCapability(table, cap_id)].key
              = <<"p", "o", "w", "e", "r", "_", "l", "1">>

C27_Witness ==
  /\ sensor_op = "normalize"
  /\ cap_id = ID_PowerPhase1
  /\ normalized = <<"p", "o", "w", "e", "r", "_", "p", "h", "a", "s", "e", "1">>

\* C28: the entities made from one payload have pairwise distinct keys; of
\* the capabilities that normalize to one key the first in payload order
\* makes the entity, unmerged, and the later ones make none.
C28_FirstWins ==
  sensor_op = "setup" =>
    LET made == [j \in DOMAIN data |-> Measurement(data[j])]
        producing == {j \in DOMAIN data : made[j] # <<>>}
        firsts == {j \in producing :
                     \A l \in producing :
                       made[l][1].key = made[j][1].key => j <= l}
    IN /\ \A i, j \in DOMAIN entities :
            i # j => entities[i].key # entities[j].key
       /\ Len(entities) = Cardinality(firsts)
       /\ \A j \in firsts :
            \E i \in DOMAIN entities : entities[i] = made[j][1]

\* two capabilities with different ids and values give the same key; the
\* entity is the one of the first
C28_Witness ==
  /\ sensor_op = "setup"
  /\ Len(data) = 2
  /\ IsNumericValue(data[1].value)
  /\ IsNumericValue(data[2].value)
  /\ data[1].id # data[2].id
  /\ data[1].unit # data[2].unit
  /\ Len(entities) = 1
  /\ entities[1].passthrough
  /\ entities[1].capability_id = data[1].id

\* C29: a capability whose normalized id matches no description makes a
\* pass-through measurement, keyed by the normalized id and with the unit of
\* the payload, exactly when its value is a number or text that parses as
\* one; otherwise it makes none.
C29_PassThrough ==
  (/\ sensor_op = "setup"
   /\ Len(data) = 1
   /\ data[1].id # <<>>
   /\ MatchCapability(table, data[1].id) = 0)
    => /\ entities # <<>>
            <=> \/ data[1].value.t = "num"
                \/ data[1].value.t = "str" /\ ParsesAsFloat(data[1].value.text)
       /\ entities # <<>> =>
            /\ Len(entities) = 1
            /\ entities[1].passthrough
            /\ entities[1].key = NormalizeCapabilityId(data[1].id)
            /\ entities[1].unit = data[1].unit
            /\ entities[1].capability_id = data[1].id

\* the text "15" with unit Wh on an id no description knows
C29_Witness ==
  /\ sensor_op = "setup"
  /\ Len(data) = 1
  /\ data[1].id = ID_signalStrength
  /\ data[1].value = Text(<<"1", "5">>)
  /\ data[1].unit = <<"W", "h">>
  /\ Len(entities) = 1
  /\ entities[1].unit = <<"W", "h">>


\* C30: when update_info is rate limited during an owned startup the startup
\* goes on: the configured home id is added to the known and to the active
\* home ids of the client, the ids it has are kept, and the default
\* websocket endpoint is set only if the client has none.
C30_RateLimitedGoesOn ==
  [][\A c \in CallIds :
       (/\ calls[c].pc = "update_info"
        /\ ~tibber_info.rate_limited
        /\ tibber_info'.rate_limited)
         => /\ c_owns
            /\ calls'[c].pc = "gather"
            /\ c_home'
            /\ tibber_info'.all_home_ids
                 = tibber_info.all_home_ids \cup {home_id}
            /\ tibber_info'.active_home_ids
                 = tibber_info.active_home_ids \cup {home_id}
            /\ tibber_info'.sub_endpoint
                 = IF tibber_info.sub_endpoint = "none"
                   THEN "default" ELSE tibber_info.sub_endpoint]_vars

\* the fallback ran on a client that held another home and an endpoint
C30_Witness ==
  /\ tibber_info.rate_limited
  /\ tibber_info.all_home_ids = {home_id, OtherHome}
  /\ tibber_info.active_home_ids = {home_id, OtherHome}
  /\ tibber_info.sub_endpoint = "server"
  /\ c_home
  /\ \E c \in CallIds : calls[c].pc = "gather"


\* C31: once async_stop of the coordinator has returned, no realtime payload
\* changes its data any more; on a borrowed client this is done by taking
\* the coordinator's callback out of the shared home's callback chain, which
\* is left as it was before the attachment. (Violated: async_stop calls
\* rt_unsubscribe on the shared home and leaves combined_cb in place.)
C31_DetachedOnStop ==
  /\ [][(stops' > stops /\ c_tibber = "shared")
          => "own" \notin Range(home_rt_callback')]_vars
  /\ [][(stops > 0 /\ stops' = stops) => c_data' = c_data]_vars


\* ---- TibberPulseHub.supports_key and TibberPulseSensor.available
\* source fields of three of SENSORS; no payload of the model carries
\* "voltagePhase1"
SensorSources == {"power", "powerPhase1", "voltagePhase1"}
\* a description without source (source: str | None = None)
NoSource == ""

\* faulty variant: only the fields of the latest payload are supported
supports_key_Latest(keys, payload, key) == key \in DOMAIN payload

\* return key in self.available_keys or bool(self.last_payload)
supports_key(keys, payload, key) == key \in keys \/ DOMAIN payload # {}

\* return bool(source and self._hub.supports_key(source))
available(keys, payload, source) ==
  source # NoSource /\ supports_key(keys, payload, source)

\* C32: a sensor that has reported available reports available in every
\* later state of the hub, whatever fields later payloads omit.
C32_StaysAvailable ==
  [][\A s \in SensorSources \cup {NoSource} :
       available(available_keys, last_payload, s)
         => available(available_keys', last_payload', s)]_vars

\* a sensor is available although the latest payload omits its field, which
\* an earlier payload carried
C32_Witness ==
  \E s \in SensorSources :
    /\ available(available_keys, last_payload, s)
    /\ s \in available_keys
    /\ s \notin DOMAIN last_payload

\* C40: supports_key(k) is true only if k was a field of some accepted
\* payload, so a sensor whose source field was never sent is never
\* available. (Violated: any non-empty last_payload makes every key
\* supported.)
C40_OnlySeenKeys ==
  \A s \in SensorSources :
    available(available_keys, last_payload, s) => s \in available_keys


\* C38: async_unload_entry stops the hub and takes it out of hass.data only
\* if the platforms unloaded; when their unload fails the hub stays
\* registered and keeps running. (Violated: the hub is popped and stopped
\* before the platforms are asked to unload.)
C38_UnloadKeepsOnFailure ==
  /\ [][(registered /\ ~registered') => unloaded' = "ok"]_vars
  /\ [][(unloaded # "failed" /\ unloaded' = "failed")
          => /\ registered'
             /\ stopped' = stopped
             /\ tasks' = tasks]_vars


\* C34: when realtime availability cannot be determined async_setup goes on
\* with polling: every end of an async_setup call, normal or with an error,
\* has created a loop task, so a hub that was set up and not stopped has a
\* task handle. (Violated: an error of the features request leaves
\* _check_realtime and async_setup before any task is created.)
C34_SetupStartsLoop ==
  /\ [][setups_waiting' < setups_waiting => Len(tasks') = Len(tasks) + 1]_vars
  /\ [][(setups_waiting' < setups_waiting /\ ~stopped')
          => (ws_task' # 0 \/ poll_task' # 0)]_vars


\* how often the coordinator's callback occurs in the home's callback chain
OwnCallbacks ==
  Cardinality({i \in DOMAIN home_rt_callback : home_rt_callback[i] = "own"})

\* C35: however the _async_update_data calls interleave, one coordinator
\* attaches at most once: rt_subscribe is invoked at most once and the shared
\* home's callback chain holds the coordinator's callback at most once.
C35_AttachOnce ==
  /\ client_ops["rt_subscribe"] <= 1
  /\ OwnCallbacks <= 1

\* two calls were made while the setup was under way, and the attachment
\* (subscription or wrapped callback) exists
C35_Witness ==
  /\ \A c \in CallIds : calls[c].pc # "idle"
  /\ \E c \in CallIds : calls[c].pc = "waiting"
  /\ OwnCallbacks = 1
  /\ c_tibber = "shared" \/ client_ops["rt_subscribe"] = 1

\* C36: a failure of _async_setup_rt leaves the coordinator not started, so
\* that a later _async_update_data runs the setup again. (Violated: _started
\* is set before the first await and never reset.)
C36_FailedSetupRetries ==
  [][\A c \in CallIds :
       (/\ calls[c].pc \in {"idle", "update_info", "gather", "attach_sleep",
                            "subscribe"}
        /\ calls'[c].pc \in {"not_ready", "auth_failed"})
         => ~c_started']_vars

\* C37: when a refresh fails, what its setup attached is torn down before
\* the failure is returned: the home's callback chain does not hold the
\* coordinator's callback and a subscription the coordinator opened is not
\* running. (Violated: nothing calls async_stop on the failure path.)
C37_FailedRefreshTornDown ==
  [][\A c \in CallIds :
       (/\ calls[c].pc \notin Ended
        /\ calls'[c].pc \in {"not_ready", "auth_failed"})
         => /\ "own" \notin Range(home_rt_callback')
            /\ ~(c_owns' /\ home_rt_running')]_vars


\* C39: every description of CAPABILITY_SPECS has its own key among its ids,
\* so that an id that already is a canonical key is matched by that same
\* description. (Violated: the ids of energy_total are accumulated
\* consumption aliases and do not include "energy_total".)
C39_KeyAmongAliases ==
  table = CAPABILITY_SPECS
    => \A i \in DOMAIN table :
         /\ table[i].key \in table[i].ids
         /\ MatchCapability(table, table[i].key) = i


\* C33: a failed home fetch of the token step is reported as invalid_auth
\* only when the credential was rejected (status 401 or 403), and as
\* cannot_connect for 429, any other error status and network failures; in
\* every such failure no token is stored and the token form is shown again.
\* (Violated: every error status raises ClientResponseError, which the flow
\* reports as invalid_auth.)
C33_FetchErrors ==
  [][(flow_submits' > flow_submits /\ flow_fetch'.made
        /\ flow_fetch'.raised # "none")
       => /\ flow_errors' = IF flow_fetch'.resp.status \in {401, 403}
                            THEN "invalid_auth" ELSE "cannot_connect"
          /\ flow_token' = flow_token
          /\ flow_step' = "user"]_vars

====
